---------------------------- MODULE Spec2Model ----------------------------
(***************************************************************************)
(* Voice-assistant firmware: the audio command task (the arbiter) of       *)
(* main/main.c, the wake-word detector of main/wwd.c, the capture producer *)
(* and the event sources that post commands to the arbiter.                *)
(***************************************************************************)
EXTENDS Integers, Sequences, FiniteSets, TLC

(***************************************************************************)
(* Program constants.                                                      *)
(***************************************************************************)
\* xQueueCreate(8, sizeof(audio_cmd_t))
QUEUE_LEN == 8
\* warmup_chunks_skip = 10 in test_audio_streaming
WARMUP_CHUNKS == 10
\* thresholds are counted in thousandths: the clamp of wwd_set_threshold
\* and wwd_init (0.4f, 0.95f) and the start value of wwd_threshold (0.5f)
THRESHOLD_MIN == 400
THRESHOLD_MAX == 950
DEFAULT_THRESHOLD == 500
\* agc.c: the gain 1.0f in thousandths, the magnitude of the most negative
\* 16-bit sample, the frame size agc_init assumes
GAIN_ONE == 1000
INT16_LIMIT == 32768
CONN_TYPE_MAX == 2
INITIAL_RETRY_DELAY_MS == 1000
MAX_RETRY_DELAY_MS == 60000
BACKOFF_MULTIPLIER == 2000
TASK_PERIOD_MS == 5000
TIMER_MAX_COUNT == 3
UINT8_MAX == 255
WARNING_THRESHOLD_SEC == 120
WARNING_INTERVAL_SEC == 30
TYPICAL_FRAME_SIZE == 512

(***************************************************************************)
(* Bounds of the model.                                                    *)
(***************************************************************************)
\* chunk sizes get_samp_chunksize() reports in the detector runs; the
\* wake-word models work on windows of some hundred samples, never on
\* fewer than the 5 odd samples of the 3*C+5 example
MinChunk == 6
MaxChunk == 8
\* control-surface events (MQTT entities, alarms, timers set) per run
MaxEvents == 1
\* audio_chunks_sent is counted up to this value
MaxChunksSent == 1

\* warm-up frames of a session in the whole-system specification
MaxWarmup == 2

\* longest input handed to one wwd_feed_audio call
MaxFeed == 3 * MaxChunk + 5

\* latest detect call of one feed that may report a detection
MaxDet == 4

\* keywords of the detection model
MaxWords == 2

\* the durations of the voice activity gate, in frames: min_speech_duration,
\* silence_duration, max_recording_duration
MinSpeechFrames == 2
SilenceFrames == 2
MaxRecordingFrames == 5
\* frames fed to the voice activity gate in one run
MaxVadFrames == 9

\* agc_process calls on one input; the calls after which the gain has
\* settled; the distance from the settled gain, in thousandths, below
\* which a step of the smoothing is cut to nothing
MaxAgcRun == 52
ConvergeFrames == 50
AgcTolerance == 7
\* agc_process calls on one input before and between agc_set_gain_limits
\* calls
MaxLimitsRun == 1
\* agc_set_gain_limits calls in one run
MaxLimitsCalls == 1

\* capture tasks created in one run
MaxTasks == 2

\* calls of timer_manager_start in one run: one more than the table holds
MaxStarts == 4
\* rounds of timer_tick_task in a run that follows each timer to its end
MaxRunTicks == 2
\* calls of timer_manager_start in such a run
MaxRunStarts == 3

\* rounds of timer_tick_task in one run
MaxTicks == 1

\* calls of the connection modules in one run
MaxConnEvents == 2

\* rounds of connection_manager_task in one run
MaxRounds == 16
\* max_retry_count of a configuration that gives up
MaxRetryCount == 1

\* sessions opened in one run
MaxSessions == 2

\* pipeline errors the backend reports in one run
MaxErrors == 2

NULL == "NULL"
HANDLE == "handle"
WWD_FEED == "wwd_audio_feed_wrapper"
CAPTURE_HANDLER == "audio_capture_handler"

Commands ==
  { "WAKE_DETECTED", "RESUME_WWD", "PIPELINE_ERROR_RESUME", "STOP_WWD",
    "RESTART_WWD", "TIMER_BEEP", "ALARM_BEEP", "TIMER_CONFIRM_BEEP",
    "TIMER_ERROR_BEEP", "MUSIC_PLAY", "MUSIC_STOP", "MUSIC_PAUSE",
    "MUSIC_RESUME", "MUSIC_NEXT", "MUSIC_PREVIOUS" }

VARIABLES
  \* ---- main.c statics
  queue,                          \* audio_cmd_queue content, head first
  apc,                            \* position of audio_cmd_task
  paused_music,                   \* local of the confirm/error beep case
  wake_detect_pending,
  music_paused_for_notification,
  music_paused_for_tts,
  wwd_init_result,                \* "OK" | "FAIL"
  wwd_threshold,                  \* in thousandths
  pipeline_handler,               \* NULL | HANDLE
  pipeline_active,
  audio_chunks_sent,
  warmup_chunks_skip,
  main_pc,                        \* position of app_main at its last branch
  \* ---- wwd.c
  wwd_state,                      \* initialized, running, chunk_size,
                                  \* chunk_filled, chunk_buffer (allocated)
  \* ---- audio capture
  is_capturing,
  capture_callback,               \* NULL | WWD_FEED | CAPTURE_HANDLER
  vad_enabled,
  \* ---- collaborators
  ha_state,                       \* backend run: "idle" | "session" (audio
                                  \* stream open) | "processing" |
                                  \* "tts_pending"
  audio_ready,                    \* ha_client_is_audio_ready()
  tts_playing,
  music_init,                     \* local_music_player_is_initialized()
  music_state,                    \* "STOPPED" | "PLAYING" | "PAUSED"
  tone,                           \* tone the arbiter plays: "none" | "ack" |
                                  \* "notify" | "feedback"
  timer,                          \* "idle" | "running" | "warning" (the tick
                                  \* task plays the warning beep)
  \* ---- environment and history
  events,                         \* control-surface events so far
  last_post,                      \* outcome of the latest audio_post_cmd
  feed_log,                       \* the latest wwd_feed_audio call of WwdFeed
  \* ---- the detection model behind wwd.c
  det_threshold,                  \* threshold the model holds per keyword
                                  \* index, in thousandths; followed in
                                  \* SpecThr only
  thr_log,                        \* the latest wwd_set_threshold call
  \* ---- the voice activity gate behind audio_capture_enable_vad
  vad,                            \* state, frame counters, the frames fed
                                  \* and the events emitted; followed in
                                  \* SpecVad only
  \* ---- agc.c
  agc,                            \* the instance behind the agc handle;
                                  \* followed in SpecAgc only
  agc_log,                        \* the input of the run and the latest
                                  \* agc_process call
  \* ---- the capture tasks behind audio_capture_start; followed in
  \* SpecCapture only
  capture_task_handle,            \* 0 (NULL) or the task created last
  capture_tasks,                  \* the capture_task instances created so
                                  \* far: position, and what each did after
                                  \* an audio_capture_stop had returned
  capture_caller,                 \* position of the task that calls
                                  \* audio_capture_start and _stop
  \* ---- app_main up to its last branch; followed in SpecBoot only
  boot,                           \* position, audio_cmd_queue,
                                  \* audio_cmd_task_handle, and whether a
                                  \* command was discarded for want of a
                                  \* queue
  \* ---- timer_manager.c; followed in SpecTimer only
  timers,                         \* the table of TIMER_MAX_COUNT entries
  next_timer_id,
  tm_log,                         \* the latest operation on the table
  \* ---- connection_manager.c; followed in SpecConn only
  cm_state,                       \* config and the connection entries
  cm_task,                        \* position of connection_manager_task
  cm_now,                         \* xTaskGetTickCount(), in milliseconds
  cm_log,                         \* the latest call or reconnection, and
                                  \* per connection the failed attempts
                                  \* since the last success
  \* ---- the session handle under its three threads; followed in
  \* SpecSession only
  ss,                             \* pipeline_handler, pipeline_active, the
                                  \* heap, and the position of each thread
  \* ---- the producer inside wwd_feed_audio ("in") or not ("out")
  feed_pc,
  \* ---- timer_tick_task between its countdown and its callbacks, and what
  \*      became of each timer
  tk

arbVars  == << queue, apc, paused_music, wake_detect_pending,
               music_paused_for_notification, music_paused_for_tts,
               wwd_init_result, wwd_threshold, main_pc, last_post >>
sessVars == << pipeline_handler, pipeline_active, audio_chunks_sent,
               warmup_chunks_skip >>
wwdVars  == << wwd_state, feed_log >>
capVars  == << is_capturing, capture_callback, vad_enabled >>
extVars  == << ha_state, audio_ready, tts_playing, music_init,
               music_state, tone, timer, events >>

\* the variables of the components followed in specifications of their own
thrVars == << det_threshold, thr_log >>
vadVars == << vad >>
agcVars == << agc, agc_log >>
taskVars == << capture_task_handle, capture_tasks, capture_caller >>
bootVars == << boot >>
timerVars == << timers, next_timer_id, tm_log >>
connVars == << cm_state, cm_task, cm_now, cm_log >>
sessionVars == << ss >>
feedVars == << feed_pc >>
runVars == << tk >>

unitVars == << thrVars, vadVars, agcVars, taskVars, bootVars, timerVars,
               connVars, sessionVars, feedVars, runVars >>
\* all of them but those of one component
unitButThr == << vadVars, agcVars, taskVars, bootVars, timerVars, connVars,
                 sessionVars, feedVars, runVars >>
unitButVad == << thrVars, agcVars, taskVars, bootVars, timerVars, connVars,
                 sessionVars, feedVars, runVars >>
unitButAgc == << thrVars, vadVars, taskVars, bootVars, timerVars, connVars,
                 sessionVars, feedVars, runVars >>
unitButTask == << thrVars, vadVars, agcVars, bootVars, timerVars, connVars,
                  sessionVars, feedVars, runVars >>
unitButBoot == << thrVars, vadVars, agcVars, taskVars, timerVars, connVars,
                  sessionVars, feedVars, runVars >>
unitButTimer == << thrVars, vadVars, agcVars, taskVars, bootVars, connVars,
                   sessionVars, feedVars, runVars >>
unitButConn == << thrVars, vadVars, agcVars, taskVars, bootVars, timerVars,
                  sessionVars, feedVars, runVars >>
unitButSession == << thrVars, vadVars, agcVars, taskVars, bootVars, timerVars,
                     connVars, feedVars, runVars >>
unitButFeed == << thrVars, vadVars, agcVars, taskVars, bootVars, timerVars,
                  connVars, sessionVars, runVars >>
unitButTimerRun == << thrVars, vadVars, agcVars, taskVars, bootVars,
                      connVars, sessionVars, feedVars >>

vars == << arbVars, sessVars, wwdVars, capVars, extVars, unitVars >>

Min(a, b) == IF a < b THEN a ELSE b

\* the frames test_audio_streaming sets aside as warm-up
WarmupFrames == Min(WARMUP_CHUNKS, MaxWarmup)

(***************************************************************************)
(* wwd.c: the detector.                                                    *)
(***************************************************************************)

NoFeed == [ valid |-> FALSE, f |-> 0, n |-> 0, det |-> 0, calls |-> 0,
            callbacks |-> 0, windows |-> {}, filled |-> 0, running |-> FALSE,
            ret |-> "none", after |-> "none" ]

\* the loop of wwd_feed_audio that stays armed after a detection
RECURSIVE FeedLoopStaysArmed(_, _, _)
FeedLoopStaysArmed(st, C, det) ==
  IF ~(st.remaining > 0 /\ st.running) THEN st
  ELSE
    LET space   == C - st.filled
        to_copy == Min(st.remaining, space)
        filled1 == st.filled + to_copy
        rem1    == st.remaining - to_copy
    IN  IF filled1 = C
        THEN LET calls1   == st.calls + 1
                 detected == (calls1 >= det /\ det > 0)
             IN  FeedLoopStaysArmed(
                   [ running   |-> st.running,
                     filled    |-> 0,
                     remaining |-> rem1,
                     calls     |-> calls1,
                     callbacks |-> st.callbacks + (IF detected THEN 1 ELSE 0),
                     windows   |-> st.windows \cup {filled1} ],
                   C, det)
        ELSE FeedLoopStaysArmed(
               [ st EXCEPT !.filled = filled1, !.remaining = rem1 ], C, det)

\* One pass of the while loop of wwd_feed_audio.  st carries running, filled,
\* remaining, calls (detect calls so far), callbacks and windows (the fill
\* counts detect was called with); det is the detect call that reports
\* WAKENET_DETECTED (0: none does).
RECURSIVE FeedLoop(_, _, _)
FeedLoop(st, C, det) ==
  IF ~(st.remaining > 0 /\ st.running) THEN st
  ELSE
    LET space   == C - st.filled
        to_copy == Min(st.remaining, space)
        filled1 == st.filled + to_copy
        rem1    == st.remaining - to_copy
    IN  IF filled1 = C
        THEN LET calls1   == st.calls + 1
                 detected == (calls1 = det)
             IN  FeedLoop([ running   |-> IF detected THEN FALSE ELSE st.running,
                            filled    |-> 0,
                            remaining |-> rem1,
                            calls     |-> calls1,
                            callbacks |-> st.callbacks + (IF detected THEN 1 ELSE 0),
                            windows   |-> st.windows \cup {filled1} ],
                          C, det)
        ELSE FeedLoop([ st EXCEPT !.filled = filled1, !.remaining = rem1 ],
                      C, det)

\* wwd_feed_audio that starts every call on an empty window
WwdFeedAudioDropsPending(w, n, det) ==
  LET st0 == [ running |-> w.running, filled |-> 0, remaining |-> n,
               calls |-> 0, callbacks |-> 0, windows |-> {} ]
  IN  IF ~w.running
        THEN st0 @@ [ ret |-> "ESP_ERR_INVALID_STATE" ]
      ELSE FeedLoop(st0, w.chunk_size, det) @@ [ ret |-> "ESP_OK" ]

\* wwd_feed_audio(audio_data, n) on detector state w: the return code and
\* the loop state it leaves.
WwdFeedAudio(w, n, det) ==
  LET st0 == [ running |-> w.running, filled |-> w.chunk_filled,
               remaining |-> n, calls |-> 0, callbacks |-> 0, windows |-> {} ]
  IN  IF ~w.running
        THEN st0 @@ [ ret |-> "ESP_ERR_INVALID_STATE" ]
      ELSE IF n = 0
        THEN st0 @@ [ ret |-> "ESP_ERR_INVALID_ARG" ]
      ELSE IF ~w.chunk_buffer \/ w.chunk_size <= 0
        THEN st0 @@ [ ret |-> "ESP_ERR_INVALID_STATE" ]
      ELSE FeedLoop(st0, w.chunk_size, det) @@ [ ret |-> "ESP_OK" ]

\* the detector state after wwd_feed_audio returned r
WwdAfterFeed(w, r) ==
  [ w EXCEPT !.running = r.running, !.chunk_filled = r.filled ]

FeedLogOf(f, n, det, r) ==
  [ valid |-> TRUE, f |-> f, n |-> n, det |-> det, calls |-> r.calls,
    callbacks |-> r.callbacks, windows |-> r.windows, filled |-> r.filled,
    running |-> r.running, ret |-> r.ret, after |-> "none" ]

WwdUninit == [ initialized |-> FALSE, running |-> FALSE, chunk_size |-> 0,
               chunk_filled |-> 0, chunk_buffer |-> FALSE,
               detection_threshold |-> 0 ]

\* wwd_init: ok is whether model load, create and buffer allocation succeed,
\* C the chunk size the model reports.
\* t is config->detection_threshold, copied before the model is loaded.
WwdInit(w, ok, C, t) ==
  IF w.initialized THEN w
  ELSE IF ok /\ C > 0
    THEN [ w EXCEPT !.initialized = TRUE, !.chunk_size = C,
                    !.chunk_filled = 0, !.chunk_buffer = TRUE,
                    !.detection_threshold = t ]
  ELSE [ w EXCEPT !.detection_threshold = t ]

WwdInitResult(w, ok, C) ==
  IF w.initialized \/ (ok /\ C > 0) THEN "OK" ELSE "FAIL"

\* wwd_start that arms the detector on the window it was stopped with
WwdStartKeepsWindow(w) ==
  IF ~w.initialized THEN w
  ELSE IF w.running THEN w
  ELSE [ w EXCEPT !.running = TRUE ]

WwdStart(w) ==
  IF ~w.initialized THEN w
  ELSE IF w.running THEN w
  ELSE [ w EXCEPT !.chunk_filled = 0, !.running = TRUE ]

WwdStop(w) ==
  IF ~w.running THEN w ELSE [ w EXCEPT !.running = FALSE ]

WwdDeinit(w) ==
  IF ~w.initialized THEN w
  ELSE [ WwdStop(w) EXCEPT !.initialized = FALSE, !.chunk_size = 0,
                           !.chunk_filled = 0, !.chunk_buffer = FALSE ]

(***************************************************************************)
(* wwd.c: thresholds.  The detection model (esp-sr WakeNet) is outside the *)
(* repository: set_det_threshold(model, value, i) answers 1 and stores the *)
(* value ("stored"), answers another code and keeps the old value          *)
(* ("rejected"), or answers 1 and keeps the old value ("ignored", the      *)
(* silent rejection the read-back of wwd_set_threshold is there for).      *)
(***************************************************************************)
BackendOutcomes == { "stored", "rejected", "ignored" }

\* requests, in thousandths
ThresholdInputs == { 300, 399, 400, 500, 950, 951, 970 }

NoSet == [ valid |-> FALSE, t |-> 0, ret |-> "none", writes |-> << >>,
           actual |-> << >>, outcome |-> << >>, before |-> 0 ]

\* the clamp that lets every request through
ClampThresholdNone(t) == t

\* the clamp of wwd_set_threshold
ClampThreshold(t) ==
  IF t < THRESHOLD_MIN THEN THRESHOLD_MIN
  ELSE IF t > THRESHOLD_MAX THEN THRESHOLD_MAX
  ELSE t

\* set_det_threshold(model, v, i) with outcome o on the thresholds dt
SetDetThreshold(dt, v, i, o) ==
  IF o = "stored" THEN [ dt EXCEPT ![i] = v ] ELSE dt

SetDetResult(o) == IF o = "rejected" THEN 0 ELSE 1

\* The for loop of wwd_set_threshold from keyword i on; acc carries the
\* model thresholds, the values written, the values read back and
\* all_success.
RECURSIVE SetThresholdLoop(_, _, _, _)
SetThresholdLoop(acc, v, i, out) ==
  IF i > Len(acc.dt) THEN acc
  ELSE
    LET dt1 == SetDetThreshold(acc.dt, v, i, out[i])
    IN  SetThresholdLoop(
          [ dt          |-> dt1,
            writes      |-> Append(acc.writes, v),
            actual      |-> Append(acc.actual, dt1[i]),
            all_success |-> acc.all_success /\ SetDetResult(out[i]) = 1 ],
          v, i + 1, out)

\* wwd_set_threshold(t): the return code, the detector state, the model
\* thresholds, the values written and the values read back
WwdSetThreshold(w, dt, t, out) ==
  IF ~w.initialized
    THEN [ ret |-> "ESP_ERR_INVALID_STATE", w |-> w, dt |-> dt,
           writes |-> << >>, actual |-> << >> ]
  ELSE
    LET v == ClampThreshold(t)
        r == SetThresholdLoop([ dt |-> dt, writes |-> << >>,
                                actual |-> << >>, all_success |-> TRUE ],
                              v, 1, out)
    IN  [ ret    |-> IF r.all_success THEN "ESP_OK" ELSE "ESP_FAIL",
          w      |-> IF r.all_success
                       THEN [ w EXCEPT !.detection_threshold = v ] ELSE w,
          dt     |-> r.dt,
          writes |-> r.writes,
          actual |-> r.actual ]

\* wwd_get_threshold: the threshold of keyword 1, 0 when not initialised
WwdGetThreshold(w, dt) ==
  IF ~w.initialized THEN 0 ELSE dt[1]

(***************************************************************************)
(* The voice activity gate.  Its implementation is outside the sources at  *)
(* hand; it is modelled on its description: SILENCE -> SPEECH after        *)
(* consecutive above-threshold frames spanning min_speech_duration,        *)
(* SPEECH -> SILENCE after a continuous below-threshold span of            *)
(* silence_duration, and a ceiling of max_recording_duration on SPEECH.    *)
(* A frame is loud when its RMS is above speech_threshold.                 *)
(***************************************************************************)
VadIdle == [ state |-> "SILENCE", above |-> 0, below |-> 0, rec |-> 0,
             events |-> << >>, input |-> << >> ]

\* a gate that takes every loud run of min_speech_duration as a start
VadSpeechBeginsAnyState(v, loud) ==
  loud /\ v.above + 1 >= MinSpeechFrames

\* the frame completes min_speech_duration of consecutive loud frames
VadSpeechBegins(v, loud) ==
  v.state = "SILENCE" /\ loud /\ v.above + 1 >= MinSpeechFrames

\* a gate without the ceiling
VadNoCeiling(v) == FALSE

\* the frame brings the recording to max_recording_duration
VadCeilingReached(v) == v.rec + 1 >= MaxRecordingFrames

\* one frame through the gate; the events it emits are appended to events
VadProcess(v, loud) ==
  LET v0 == [ v EXCEPT !.input = Append(v.input, loud) ] IN
  IF VadSpeechBegins(v, loud)
    THEN [ v0 EXCEPT !.state = "SPEECH", !.above = v.above + 1,
                     !.below = 0, !.rec = 0,
                     !.events = Append(v.events, "SPEECH_START") ]
  ELSE IF v.state = "SILENCE"
    THEN [ v0 EXCEPT !.above = IF loud THEN v.above + 1 ELSE 0 ]
  ELSE IF VadCeilingReached(v)
            \/ (~loud /\ v.below + 1 >= SilenceFrames)
    THEN [ v0 EXCEPT !.state = "SILENCE", !.above = 0, !.below = 0,
                     !.rec = v.rec + 1,
                     !.events = Append(v.events, "SPEECH_END") ]
  ELSE [ v0 EXCEPT !.rec = v.rec + 1,
                   !.below = IF loud THEN 0 ELSE v.below + 1 ]

(***************************************************************************)
(* agc.c: the automatic gain control.  Gains and smoothing coefficients    *)
(* are floats in the code; here they are held in thousandths, and every    *)
(* product is cut to a whole number of thousandths where the code rounds   *)
(* to the nearest float.                                                   *)
(***************************************************************************)
\* a C conversion to an integer cuts towards zero
TruncDiv(a, b) == IF a >= 0 THEN a \div b ELSE -((-a) \div b)

\* the largest r in lo .. hi - 1 with r * r <= n, given lo * lo <= n < hi * hi
RECURSIVE SqrtBetween(_, _, _)
SqrtBetween(lo, hi, n) ==
  IF hi - lo <= 1 THEN lo
  ELSE LET mid == (lo + hi) \div 2 IN
       IF mid * mid <= n THEN SqrtBetween(mid, hi, n)
       ELSE SqrtBetween(lo, mid, n)

\* (uint16_t)sqrtf(x) for a mean square x of 16-bit samples
ISqrt(n) == SqrtBetween(0, INT16_LIMIT + 1, n)

\* the sum of the squares divided by the number of samples, as the 64-bit
\* sum of the code gives it: quotients and remainders are added apart
RECURSIVE SumOver(_, _)
SumOver(f, s) ==
  IF s = << >> THEN 0 ELSE f[Head(s)] + SumOver(f, Tail(s))

MeanSquare(audio) ==
  LET n == Len(audio)
      q == [ s \in { audio[i] : i \in 1 .. n } |-> (s * s) \div n ]
      r == [ s \in { audio[i] : i \in 1 .. n } |-> (s * s) % n ]
  IN  SumOver(q, audio) + SumOver(r, audio) \div n

CalculateRms(audio) ==
  IF Len(audio) = 0 THEN 0 ELSE ISqrt(MeanSquare(audio))

\* expf(-x) for x in thousandths, in millionths: the series of the
\* exponential, summed until its terms vanish
RECURSIVE ExpNegTerms(_, _, _)
ExpNegTerms(x, k, term) ==
  IF term = 0 THEN 0
  ELSE term - ExpNegTerms(x, k + 1, (term * x) \div (GAIN_ONE * (k + 1)))

ExpNeg(x) == ExpNegTerms(x, 0, GAIN_ONE * GAIN_ONE)

\* calculate_coefficient: 1 - expf(-1 / frames), frames the time constant
\* in frames of frame_size samples
CalculateCoefficient(time_ms, sample_rate, frame_size) ==
  IF time_ms <= 0 \/ sample_rate = 0 THEN GAIN_ONE
  ELSE LET inv_frames ==
             (GAIN_ONE * GAIN_ONE * frame_size) \div (time_ms * sample_rate)
       IN  GAIN_ONE - (ExpNeg(inv_frames) + GAIN_ONE \div 2) \div GAIN_ONE

AgcDefaultConfig ==
  [ sample_rate |-> 16000, target_level |-> 4000, min_gain |-> 500,
    max_gain |-> 8000, attack_time_ms |-> 50, release_time_ms |-> 200,
    noise_gate_threshold |-> 50 ]

\* a configuration that asks for an instant response
AgcInstantConfig ==
  [ AgcDefaultConfig EXCEPT !.attack_time_ms = 0, !.release_time_ms = 0 ]

AgcInit(config) ==
  [ config |-> config, current_gain |-> GAIN_ONE, input_level |-> 0,
    output_level |-> 0, frames_processed |-> 0, clipping_count |-> 0,
    attack_coeff |-> CalculateCoefficient(config.attack_time_ms,
                                          config.sample_rate,
                                          TYPICAL_FRAME_SIZE),
    release_coeff |-> CalculateCoefficient(config.release_time_ms,
                                           config.sample_rate,
                                           TYPICAL_FRAME_SIZE) ]

\* a gate that lets every frame through to the gain adjustment
NoiseGatedNever(input_rms, gate) == FALSE

\* the noise gate of agc_process
NoiseGated(input_rms, gate) == input_rms < gate

\* target_level / input_rms, clamped to the gain limits
AgcDesiredGain(config, input_rms) ==
  LET d0 == IF input_rms > 0
              THEN (config.target_level * GAIN_ONE) \div input_rms
            ELSE GAIN_ONE
      d1 == IF d0 < config.min_gain THEN config.min_gain ELSE d0
  IN  IF d1 > config.max_gain THEN config.max_gain ELSE d1

\* smoothing with the two coefficients exchanged
SmoothingCoeffSwapped(a, desired_gain) ==
  IF desired_gain > a.current_gain THEN a.release_coeff ELSE a.attack_coeff

\* attack while the gain is to rise, release otherwise
SmoothingCoeff(a, desired_gain) ==
  IF desired_gain > a.current_gain THEN a.attack_coeff ELSE a.release_coeff

\* one sample times the gain, cut to an integer and clipped to 16 bits
Amplify(sample, gain) ==
  LET amplified == TruncDiv(sample * gain, GAIN_ONE) IN
  IF amplified > INT16_LIMIT - 1 THEN INT16_LIMIT - 1
  ELSE IF amplified < -INT16_LIMIT THEN -INT16_LIMIT
  ELSE amplified

Clips(sample, gain) ==
  LET amplified == TruncDiv(sample * gain, GAIN_ONE) IN
  amplified > INT16_LIMIT - 1 \/ amplified < -INT16_LIMIT

\* agc_process on an initialised instance: the instance afterwards, the
\* buffer afterwards and the return value
AgcProcess(a, audio) ==
  IF Len(audio) = 0
    THEN [ agc |-> a, audio |-> audio, ret |-> "ESP_ERR_INVALID_ARG" ]
  ELSE
    LET input_rms == CalculateRms(audio)
        a1 == [ a EXCEPT !.input_level = input_rms ]
    IN
    IF NoiseGated(input_rms, a.config.noise_gate_threshold)
      THEN [ agc |-> [ a1 EXCEPT !.frames_processed = @ + 1 ],
             audio |-> audio, ret |-> "ESP_OK" ]
    ELSE
      LET desired_gain == AgcDesiredGain(a.config, input_rms)
          coeff == SmoothingCoeff(a, desired_gain)
          gain == a.current_gain
                    + TruncDiv(coeff * (desired_gain - a.current_gain),
                               GAIN_ONE)
          out == [ i \in 1 .. Len(audio) |-> Amplify(audio[i], gain) ]
          clipped == \E i \in 1 .. Len(audio) : Clips(audio[i], gain)
      IN  [ agc |-> [ a1 EXCEPT !.current_gain = gain,
                                !.output_level = CalculateRms(out),
                                !.clipping_count =
                                   IF clipped THEN @ + 1 ELSE @,
                                !.frames_processed = @ + 1 ],
            audio |-> out, ret |-> "ESP_OK" ]

\* a setter that leaves current_gain where it is
ClampGainNone(gain, min_gain, max_gain) == gain

\* the clamp of current_gain in agc_set_gain_limits
ClampGain(gain, min_gain, max_gain) ==
  LET g1 == IF gain < min_gain THEN min_gain ELSE gain IN
  IF g1 > max_gain THEN max_gain ELSE g1

\* agc_set_gain_limits on an initialised instance
AgcSetGainLimits(a, min_gain, max_gain) ==
  IF min_gain <= 0 \/ max_gain < min_gain
    THEN [ agc |-> a, ret |-> "ESP_ERR_INVALID_ARG" ]
  ELSE [ agc |-> [ a EXCEPT !.config.min_gain = min_gain,
                            !.config.max_gain = max_gain,
                            !.current_gain =
                               ClampGain(@, min_gain, max_gain) ],
         ret |-> "ESP_OK" ]

\* no agc_set_gain_limits call yet
NoLimitsCall ==
  [ calls |-> 0, min_gain |-> 0, max_gain |-> 0, ret |-> "none",
    before |-> GAIN_ONE, frames |-> 0 ]

\* no agc_process call yet, no input chosen
NoAgcCall ==
  [ called |-> FALSE, segments |-> 0, input |-> << >>, run |-> 0,
    prev |-> AgcInit(AgcDefaultConfig), out |-> << >>, ret |-> "none",
    limits |-> NoLimitsCall ]

(***************************************************************************)
(* The state every specification starts from, but for what it draws.       *)
(***************************************************************************)
SessionIds == 1 .. MaxSessions

SessionStart ==
  [ pipeline_handler |-> 0, pipeline_active |-> FALSE, is_capturing |-> FALSE,
    heap |-> [ h \in SessionIds |-> "unused" ],
    frees |-> [ h \in SessionIds |-> 0 ],
    streamed_freed |-> FALSE,
    cap |-> "idle", be |-> "idle", errors |-> 0 ]

ConnTypes == 0 .. CONN_TYPE_MAX - 1

\* connection_manager_get_default_config
ConnDefaultConfig ==
  [ health_check_interval_ms |-> 30000,
    initial_retry_delay_ms |-> INITIAL_RETRY_DELAY_MS,
    max_retry_delay_ms |-> MAX_RETRY_DELAY_MS,
    max_retry_count |-> 0,
    backoff_multiplier |-> BACKOFF_MULTIPLIER ]

\* an entry after connection_manager_register
ConnRegistered ==
  [ registered |-> TRUE, reconnect_fn |-> HANDLE,
    state |-> "DISCONNECTED", retry_count |-> 0,
    next_retry_delay_ms |-> ConnDefaultConfig.initial_retry_delay_ms,
    last_attempt_time |-> 0, reconnect_pending |-> FALSE ]

\* connection_manager_init(cfg) and every connection registered
ConnStart(cfg) ==
  [ config |-> cfg,
    connections |-> [ t \in ConnTypes |->
                        [ ConnRegistered EXCEPT !.next_retry_delay_ms =
                            cfg.initial_retry_delay_ms ] ] ]

TaskStart == [ pc |-> "scan", i |-> 0, now |-> 0 ]

NoConnCall ==
  [ op |-> "none", type |-> 0, state |-> "none", events |-> 0, rounds |-> 0,
    fails |-> [ t \in ConnTypes |-> 0 ] ]

TimerSlots == 0 .. TIMER_MAX_COUNT - 1

\* memset(timers, 0, sizeof(timers))
TimerCleared ==
  [ id |-> 0, duration_seconds |-> 0, remaining_seconds |-> 0,
    state |-> "IDLE", label |-> << "", 0 >> ]

NoTimerCall ==
  [ op |-> "none", seconds |-> 0, ret |-> "none", out_id |-> 0,
    starts |-> 0, ticks |-> 0, expired |-> {}, warned |-> {} ]

\* the IDs a run can give out
RunIds == (1 .. MaxStarts) \cup { UINT8_MAX }

\* a timer ID not given out yet: when it was started (in ticks counted), for
\* how long, how often and when expired_callback was called with it, whether
\* its slot was free then, whether timer_manager_stop stopped it
NotStarted ==
  [ born |-> -1, s |-> 0, fired |-> 0, fired_at |-> -1, free |-> FALSE,
    stopped |-> FALSE ]

\* timer_tick_task before its first round: expired_ids empty
NoRun == [ pending |-> << >>, hist |-> [ id \in RunIds |-> NotStarted ] ]

RunningSlots(ts) == { i \in TimerSlots : ts[i].state = "RUNNING" }

InitQuiet ==
  /\ apc = "wait"
  /\ paused_music = FALSE
  /\ wake_detect_pending = FALSE
  /\ music_paused_for_notification = FALSE
  /\ music_paused_for_tts = FALSE
  /\ pipeline_handler = NULL
  /\ pipeline_active = FALSE
  /\ audio_chunks_sent = 0
  /\ warmup_chunks_skip = 0
  /\ is_capturing = FALSE
  /\ capture_callback = NULL
  /\ vad_enabled = FALSE
  /\ audio_ready = FALSE
  /\ tts_playing = FALSE
  /\ tone = "none"
  /\ timer = "idle"
  /\ events = 0
  /\ feed_log = NoFeed
  /\ wwd_threshold = DEFAULT_THRESHOLD
  /\ thr_log = NoSet
  /\ vad = VadIdle
  /\ agc_log = NoAgcCall
  /\ capture_task_handle = 0
  /\ capture_tasks = << >>
  /\ capture_caller = "idle"
  /\ tm_log = NoTimerCall
  /\ cm_task = TaskStart
  /\ cm_now = 0
  /\ cm_log = NoConnCall
  /\ ss = SessionStart
  /\ tk = NoRun
  /\ feed_pc = "out"

\* app_main has created the command queue and the arbiter task
BootDone ==
  [ pc |-> "running", audio_cmd_queue |-> HANDLE,
    audio_cmd_task_handle |-> HANDLE, discarded |-> FALSE ]

\* no backend run, no music
InitCommon ==
  /\ InitQuiet
  /\ boot = BootDone
  /\ next_timer_id = 1
  /\ timers = [ i \in TimerSlots |-> TimerCleared ]
  /\ cm_state = ConnStart(ConnDefaultConfig)
  /\ ha_state = "idle"
  /\ music_state = "STOPPED"

\* nothing posted yet
InitRest ==
  /\ InitCommon
  /\ queue = << >>
  /\ last_post = "none"

(***************************************************************************)
(* SpecWwd: the detector alone, armed, fed inputs of every length.         *)
(***************************************************************************)
InitWwd ==
  /\ InitRest
  /\ det_threshold = << >>
  /\ agc = AgcInit(AgcDefaultConfig)
  /\ wwd_init_result = "OK"
  /\ main_pc = "done"
  /\ music_init = FALSE
  /\ \E C \in MinChunk .. MaxChunk : \E f \in 0 .. C - 1 :
       wwd_state = [ initialized |-> TRUE, running |-> TRUE, chunk_size |-> C,
                     chunk_filled |-> f, chunk_buffer |-> TRUE,
                     detection_threshold |-> DEFAULT_THRESHOLD ]

\* one wwd_feed_audio call with n samples; the det-th detect call of it
\* reports a detection (0: none)
WwdFeed ==
  \E n \in 0 .. MaxFeed, det \in 0 .. MaxDet :
    LET r == WwdFeedAudio(wwd_state, n, det) IN
    /\ wwd_state' = WwdAfterFeed(wwd_state, r)
    /\ feed_log' = [ FeedLogOf(wwd_state.chunk_filled, n, det, r)
                       EXCEPT !.after = feed_log.ret ]
    /\ UNCHANGED << arbVars, sessVars, capVars, extVars, unitVars >>

\* wwd_start(); the log keeps what wwd_stop left pending when the call
\* follows a wwd_stop
WwdStartCall ==
  /\ wwd_state' = WwdStart(wwd_state)
  /\ feed_log' = IF feed_log.ret = "stop"
                    THEN [ feed_log EXCEPT !.ret = "stop_start" ]
                  ELSE [ NoFeed EXCEPT !.ret = "start" ]
  /\ UNCHANGED << arbVars, sessVars, capVars, extVars, unitVars >>

\* wwd_stop(); the log records the samples pending at the stop
WwdStopCall ==
  /\ wwd_state' = WwdStop(wwd_state)
  /\ feed_log' = [ NoFeed EXCEPT !.ret = "stop",
                                 !.f = wwd_state.chunk_filled ]
  /\ UNCHANGED << arbVars, sessVars, capVars, extVars, unitVars >>

NextWwd == WwdFeed \/ WwdStartCall \/ WwdStopCall

SpecWwd == InitWwd /\ [][NextWwd]_vars

\* a feed of the armed detector that ended without a detection
FedArmedNoDetection ==
  /\ feed_log.valid
  /\ feed_log.ret \in { "ESP_OK", "ESP_ERR_INVALID_ARG" }
  /\ feed_log.callbacks = 0

C10_WindowDiscipline ==
  FedArmedNoDetection =>
    /\ feed_log.calls = (feed_log.f + feed_log.n) \div wwd_state.chunk_size
    /\ feed_log.windows \subseteq { wwd_state.chunk_size }
    /\ feed_log.filled = (feed_log.f + feed_log.n) % wwd_state.chunk_size
    /\ wwd_state.chunk_filled = feed_log.filled

(***************************************************************************)
(* C10: with the detector armed, f samples pending, chunk size C and no    *)
(* positive detection, a feed of n samples calls detect floor((f+n)/C)     *)
(* times, each time on a window of exactly C samples, and leaves           *)
(* (f+n) mod C samples pending; 3*C+5 samples fed into an empty window     *)
(* give 3 detect calls and 5 pending samples.                              *)
(***************************************************************************)
C10_FeedWindows ==
  /\ C10_WindowDiscipline
  /\ (FedArmedNoDetection /\ feed_log.f = 0
        /\ feed_log.n = 3 * wwd_state.chunk_size + 5)
       => (feed_log.calls = 3 /\ feed_log.filled = 5)

\* 3*C+5 samples were fed into an empty window
C10_Witness ==
  /\ FedArmedNoDetection
  /\ feed_log.f = 0
  /\ feed_log.n = 3 * wwd_state.chunk_size + 5
  /\ feed_log.calls = 3
  /\ feed_log.filled = 5

(***************************************************************************)
(* SpecThr: wwd_set_threshold called with every request on a detector      *)
(* that is initialised or not, with a model of 1 .. MaxWords keywords.     *)
(***************************************************************************)
InitThr ==
  /\ InitRest
  /\ wwd_init_result = "OK"
  /\ main_pc = "done"
  /\ music_init = FALSE
  /\ \E init \in BOOLEAN, n \in 1 .. MaxWords,
        t0 \in { THRESHOLD_MIN, DEFAULT_THRESHOLD, THRESHOLD_MAX } :
       /\ wwd_state = IF init
                        THEN WwdInit(WwdUninit, TRUE, MaxChunk, t0)
                      ELSE WwdUninit
       /\ det_threshold = IF init THEN [ i \in 1 .. n |-> t0 ] ELSE << >>
  /\ agc = AgcInit(AgcDefaultConfig)

WwdSetThresholdCall ==
  \E t \in ThresholdInputs :
    \E out \in [ 1 .. Len(det_threshold) -> BackendOutcomes ] :
      LET r == WwdSetThreshold(wwd_state, det_threshold, t, out) IN
      /\ wwd_state' = r.w
      /\ det_threshold' = r.dt
      /\ thr_log' = [ valid |-> TRUE, t |-> t, ret |-> r.ret,
                      writes |-> r.writes, actual |-> r.actual,
                      outcome |-> out,
                      before |-> wwd_state.detection_threshold ]
      /\ UNCHANGED << arbVars, sessVars, feed_log, capVars, extVars,
                      unitButThr >>

NextThr == WwdSetThresholdCall

SpecThr == InitThr /\ [][NextThr]_vars

Max(a, b) == IF a > b THEN a ELSE b

\* t brought into [0.4, 0.95]
InRange(t) == Max(THRESHOLD_MIN, Min(THRESHOLD_MAX, t))

\* the latest wwd_set_threshold call found the detector initialised
SetOnInitialised == thr_log.valid /\ wwd_state.initialized

C14_VerifiedWrites ==
  thr_log.valid =>
    IF ~wwd_state.initialized
      THEN /\ thr_log.ret = "ESP_ERR_INVALID_STATE"
           /\ thr_log.writes = << >>
           /\ det_threshold = << >>
           /\ agc = AgcInit(AgcDefaultConfig)
    ELSE /\ Len(thr_log.writes) = Len(det_threshold)
         /\ \A i \in 1 .. Len(det_threshold) :
              /\ thr_log.writes[i] = InRange(thr_log.t)
              /\ thr_log.actual[i] = det_threshold[i]
         /\ thr_log.ret \in { "ESP_OK", "ESP_FAIL" }
         /\ thr_log.ret = "ESP_OK" =>
              /\ \A i \in 1 .. Len(det_threshold) :
                   det_threshold[i] = InRange(thr_log.t)
              /\ wwd_state.detection_threshold = InRange(thr_log.t)
         /\ thr_log.ret = "ESP_FAIL" =>
              /\ \E i \in 1 .. Len(det_threshold) :
                   thr_log.outcome[i] # "stored"
              /\ wwd_state.detection_threshold = thr_log.before

(***************************************************************************)
(* SpecVad: the voice activity gate fed every sequence of loud and quiet   *)
(* frames up to MaxVadFrames.                                              *)
(***************************************************************************)
InitVad ==
  /\ InitRest
  /\ det_threshold = << >>
  /\ agc = AgcInit(AgcDefaultConfig)
  /\ wwd_init_result = "OK"
  /\ main_pc = "done"
  /\ music_init = FALSE
  /\ wwd_state = WwdInit(WwdUninit, TRUE, MaxChunk, DEFAULT_THRESHOLD)

VadFrame ==
  /\ Len(vad.input) < MaxVadFrames
  /\ \E loud \in BOOLEAN : vad' = VadProcess(vad, loud)
  /\ UNCHANGED << arbVars, sessVars, wwdVars, capVars, extVars,
                  unitButVad >>

NextVad == VadFrame

SpecVad == InitVad /\ [][NextVad]_vars

\* n frames of the same kind
RECURSIVE Frames(_, _)
Frames(n, loud) == IF n = 0 THEN << >> ELSE << loud >> \o Frames(n - 1, loud)

\* loud for min_speech_duration, then quiet for silence_duration
SpeechThenSilence ==
  Frames(MinSpeechFrames, TRUE) \o Frames(SilenceFrames, FALSE)

(***************************************************************************)
(* C16: loud frames for min_speech_duration followed by quiet frames for   *)
(* silence_duration give exactly one SPEECH_START followed by exactly one  *)
(* SPEECH_END; for every input SPEECH_START and SPEECH_END alternate,      *)
(* starting with SPEECH_START, and the state is SPEECH exactly after a     *)
(* SPEECH_START.                                                           *)
(***************************************************************************)
C16_EdgesAlternate ==
  /\ vad.input = SpeechThenSilence =>
        vad.events = << "SPEECH_START", "SPEECH_END" >>
  /\ \A i \in 1 .. Len(vad.events) :
        vad.events[i] = IF i % 2 = 1 THEN "SPEECH_START" ELSE "SPEECH_END"
  /\ (vad.state = "SPEECH") <=> (Len(vad.events) % 2 = 1)

\* the input of the example was fed
C16_Witness ==
  /\ vad.input = SpeechThenSilence
  /\ vad.events = << "SPEECH_START", "SPEECH_END" >>
  /\ vad.state = "SILENCE"

C11_NoCarryOver ==
  /\ feed_log.ret = "stop_start" =>
        (wwd_state.running /\ wwd_state.chunk_filled = 0)
  /\ (feed_log.valid /\ feed_log.after = "stop_start") =>
        /\ feed_log.f = 0
        /\ feed_log.windows \subseteq { wwd_state.chunk_size }
        /\ feed_log.calls * wwd_state.chunk_size <= feed_log.n

\* five samples were pending at the stop and the detector was started again
C11_Witness ==
  /\ feed_log.ret = "stop_start"
  /\ feed_log.f = 5
  /\ wwd_state.running

\* a feed of the detector
FeedStep == feed_log'.valid /\ feed_log' # feed_log

(***************************************************************************)
(* C12: detection is single-shot.  The feed in which detect reports a      *)
(* detection disarms the detector, invokes the callback once and calls     *)
(* detect no more; a feed of the disarmed detector calls neither detect    *)
(* nor the callback; only wwd_start arms the detector again.               *)
(***************************************************************************)
C12_SingleShot ==
  [][ /\ (FeedStep /\ feed_log'.callbacks > 0) =>
            /\ feed_log'.callbacks = 1
            /\ feed_log'.calls = feed_log'.det
            /\ ~wwd_state'.running
      /\ (FeedStep /\ ~wwd_state.running) =>
            /\ feed_log'.calls = 0
            /\ feed_log'.callbacks = 0
            /\ ~wwd_state'.running
      /\ (~wwd_state.running /\ wwd_state'.running) => WwdStartCall ]_vars

\* a detection in a feed whose input held at least one more full window
C12_Witness ==
  /\ feed_log.valid
  /\ feed_log.callbacks = 1
  /\ feed_log.f + feed_log.n >= (feed_log.det + 1) * wwd_state.chunk_size
  /\ ~wwd_state.running

(***************************************************************************)
(* main.c: the command queue.                                              *)
(***************************************************************************)

\* audio_post_cmd that puts the command at the head of the queue
AudioPostCmdToFront(q, cmd) ==
  IF Len(q) < QUEUE_LEN THEN << cmd >> \o q ELSE q

\* audio_post_cmd that makes room in a full queue by discarding its head
AudioPostCmdOverwrite(q, cmd) ==
  IF Len(q) < QUEUE_LEN THEN Append(q, cmd) ELSE Append(Tail(q), cmd)

\* audio_post_cmd: xQueueSend with a timeout of 0
AudioPostCmd(q, cmd) ==
  IF Len(q) < QUEUE_LEN THEN Append(q, cmd) ELSE q

\* whether a post to q is stored or dropped
PostOutcome(q) ==
  IF Len(q) < QUEUE_LEN THEN "sent" ELSE "dropped"

\* An event source other than the detector acts when the arbiter has taken
\* every command posted before: audio_cmd_task (priority 6) is woken by a
\* post, so commands pile up only behind a handler in progress, behind a
\* detection and behind the posts of the arbiter itself.
Backlog == queue = << >>

\* xQueueReceive in audio_cmd_task: the task is waiting and cmd is at the head
Dequeue(cmd) ==
  /\ apc = "wait"
  /\ queue # << >>
  /\ Head(queue) = cmd

(***************************************************************************)
(* The music player and the state-change callback it invokes.              *)
(***************************************************************************)
MusicPause(st)  == IF st = "PLAYING" THEN "PAUSED" ELSE st
MusicResume(st) == IF st = "PAUSED" THEN "PLAYING" ELSE st

\* a handler that disables the detector on every player event
MusicEventCmdStopOnly(st) == "STOP_WWD"

\* music_player_event_handler(state): the command it posts
MusicEventCmd(st) ==
  IF st \in { "PLAYING", "PAUSED" } THEN "STOP_WWD" ELSE "RESUME_WWD"

\* the queue after the player moved from old to new and told the handler
QueueAfterMusic(q, old, new) ==
  IF old # new THEN AudioPostCmd(q, MusicEventCmd(new)) ELSE q

PostAfterMusic(q, old, new, prev) ==
  IF old # new THEN PostOutcome(q) ELSE prev

(***************************************************************************)
(* Audio capture.                                                          *)
(***************************************************************************)
\* the capture state as one value
Cap == [ capturing |-> is_capturing, callback |-> capture_callback ]

SetCap(c) ==
  /\ is_capturing' = c.capturing
  /\ capture_callback' = c.callback

\* audio_capture_stop / audio_capture_stop_wait
AudioCaptureStop(c) ==
  IF ~c.capturing THEN c
  ELSE [ capturing |-> FALSE, callback |-> NULL ]

\* audio_capture_start(callback) and audio_capture_start_wake_word_mode;
\* ok: the capture task could be created
AudioCaptureStart(c, callback, ok) ==
  IF c.capturing THEN c
  ELSE [ capturing |-> ok, callback |-> callback ]

(***************************************************************************)
(* Who holds the audio device.                                             *)
(***************************************************************************)
WakeWordCapture  == is_capturing /\ capture_callback = WWD_FEED
RecordingCapture == is_capturing /\ capture_callback = CAPTURE_HANDLER
TtsPlayback      == tts_playing
MusicPlayback    == music_state = "PLAYING"
TonePlayback     == tone # "none" \/ timer = "warning"

Owners ==
  { o \in { "wake_word", "recording", "tts", "music", "tone" } :
      \/ o = "wake_word" /\ WakeWordCapture
      \/ o = "recording" /\ RecordingCapture
      \/ o = "tts" /\ TtsPlayback
      \/ o = "music" /\ MusicPlayback
      \/ o = "tone" /\ TonePlayback }

\* the Mode of the state table
Mode ==
  IF TonePlayback THEN "PLAYING_NOTIFY"
  ELSE IF MusicPlayback THEN "PLAYING_MUSIC"
  ELSE IF TtsPlayback THEN "PLAYING_TTS"
  ELSE IF RecordingCapture THEN "RECORDING"
  ELSE IF WakeWordCapture /\ wwd_state.running THEN "LISTENING"
  ELSE "IDLE"

(***************************************************************************)
(* main.c: the session.                                                    *)
(***************************************************************************)

\* test_audio_streaming; o is what fails, if anything; warm is the value
\* warmup_chunks_skip is set to
TestAudioStreamingWith(o, warm) ==
  CASE o = "vad_fail" ->
         UNCHANGED << sessVars, capVars, ha_state, audio_ready >>
    [] o = "conv_fail" ->
         /\ pipeline_handler' = NULL
         /\ vad_enabled' = FALSE
         /\ UNCHANGED << pipeline_active, audio_chunks_sent,
                         warmup_chunks_skip, is_capturing, capture_callback,
                         ha_state, audio_ready >>
    [] o = "cap_fail" ->
         /\ ~is_capturing
         /\ pipeline_handler' = NULL
         /\ pipeline_active' = FALSE
         /\ audio_chunks_sent' = 0
         /\ warmup_chunks_skip' = warm
         /\ vad_enabled' = FALSE
         /\ SetCap(AudioCaptureStart(Cap, CAPTURE_HANDLER, FALSE))
         /\ ha_state' = "session"
         /\ audio_ready' = FALSE
    [] o = "ok" ->
         /\ pipeline_handler' = HANDLE
         /\ pipeline_active' = TRUE
         /\ audio_chunks_sent' = 0
         /\ warmup_chunks_skip' = warm
         /\ vad_enabled' = TRUE
         /\ SetCap(AudioCaptureStart(Cap, CAPTURE_HANDLER, TRUE))
         /\ ha_state' = "session"
         /\ audio_ready' = FALSE

\* test_audio_streaming in the whole-system specification
TestAudioStreaming(o) == TestAudioStreamingWith(o, WarmupFrames)

StreamingOutcomes == { "ok", "vad_fail", "conv_fail", "cap_fail" }

\* the cleanup of pipeline_error_handler and of vad_event_handler
SessionCleared ==
  /\ pipeline_active' = FALSE
  /\ pipeline_handler' = NULL
  /\ audio_chunks_sent' = 0

(***************************************************************************)
(* main.c: audio_cmd_task, one action per command and blocking point.      *)
(***************************************************************************)

\* case AUDIO_CMD_WAKE_DETECTED, up to the ack tone
HandleWakeBegin ==
  /\ Dequeue("WAKE_DETECTED")
  /\ queue' = Tail(queue)
  /\ wwd_state' = WwdStop(wwd_state)
  /\ SetCap(AudioCaptureStop(Cap))
  /\ \E beep_ok \in BOOLEAN : tone' = IF beep_ok THEN "ack" ELSE "none"
  /\ apc' = "wake_beep"
  /\ UNCHANGED << paused_music, wake_detect_pending,
                  music_paused_for_notification, music_paused_for_tts,
                  wwd_init_result, wwd_threshold, main_pc, last_post,
                  sessVars, feed_log, unitVars, vad_enabled, ha_state,
                  audio_ready, tts_playing, music_init, music_state, timer,
                  events >>

\* case AUDIO_CMD_WAKE_DETECTED, from the end of the tone
HandleWakeEndWith(warm) ==
  /\ apc = "wake_beep"
  /\ tone' = "none"
  /\ \E o \in StreamingOutcomes : TestAudioStreamingWith(o, warm)
  /\ wake_detect_pending' = FALSE
  /\ apc' = "wait"
  /\ UNCHANGED << queue, paused_music, music_paused_for_notification,
                  music_paused_for_tts, wwd_init_result, wwd_threshold,
                  main_pc, last_post, wwdVars, unitVars, tts_playing,
                  music_init, music_state, timer, events >>

HandleWakeEnd == HandleWakeEndWith(WarmupFrames)

\* case AUDIO_CMD_RESUME_WWD
\* a RESUME_WWD case that looks at the music player only
ResumeSkippedForMusicOnly(res) ==
  music_init /\ music_state \in { "PLAYING", "PAUSED" }

\* the two early exits of case AUDIO_CMD_RESUME_WWD
ResumeSkipped(res) ==
  \/ music_init /\ music_state \in { "PLAYING", "PAUSED" }
  \/ res # "OK"

HandleResumeWwd ==
  /\ Dequeue("RESUME_WWD")
  /\ queue' = Tail(queue)
  /\ wake_detect_pending' =
       IF ResumeSkipped(wwd_init_result) THEN FALSE ELSE wake_detect_pending
  /\ IF ResumeSkipped(wwd_init_result)
       THEN UNCHANGED << wwd_state, is_capturing, capture_callback >>
       ELSE /\ wwd_state' = WwdStart(WwdStop(wwd_state))
            /\ SetCap(AudioCaptureStart(AudioCaptureStop(Cap), WWD_FEED, TRUE))
  /\ UNCHANGED << apc, paused_music, music_paused_for_notification,
                  music_paused_for_tts, wwd_init_result, wwd_threshold,
                  main_pc, last_post, sessVars, feed_log, unitVars,
                  vad_enabled, extVars >>

\* case AUDIO_CMD_PIPELINE_ERROR_RESUME, entering vTaskDelay(2000 ms)
HandleErrorResumeBegin ==
  /\ Dequeue("PIPELINE_ERROR_RESUME")
  /\ queue' = Tail(queue)
  /\ apc' = "error_delay"
  /\ UNCHANGED << paused_music, wake_detect_pending,
                  music_paused_for_notification, music_paused_for_tts,
                  wwd_init_result, wwd_threshold, main_pc, last_post,
                  sessVars, wwdVars, unitVars, capVars, extVars >>

\* case AUDIO_CMD_PIPELINE_ERROR_RESUME, after the delay
HandleErrorResumeEnd ==
  /\ apc = "error_delay"
  /\ queue' = AudioPostCmd(queue, "RESUME_WWD")
  /\ last_post' = PostOutcome(queue)
  /\ apc' = "wait"
  /\ UNCHANGED << paused_music, wake_detect_pending,
                  music_paused_for_notification, music_paused_for_tts,
                  wwd_init_result, wwd_threshold, main_pc, sessVars,
                  wwdVars, unitVars, capVars, extVars >>

\* case AUDIO_CMD_STOP_WWD
HandleStopWwd ==
  /\ Dequeue("STOP_WWD")
  /\ queue' = Tail(queue)
  /\ wwd_state' = WwdStop(wwd_state)
  /\ SetCap(AudioCaptureStop(Cap))
  /\ UNCHANGED << apc, paused_music, wake_detect_pending,
                  music_paused_for_notification, music_paused_for_tts,
                  wwd_init_result, wwd_threshold, main_pc, last_post,
                  sessVars, feed_log, unitVars, vad_enabled, extVars >>

\* case AUDIO_CMD_RESTART_WWD that resumes whenever the detector was rebuilt
RestartRepostAlways(was_running, res) == res = "OK"

\* case AUDIO_CMD_RESTART_WWD: whether RESUME_WWD is posted after wwd_init
RestartRepost(was_running, res) == res = "OK" /\ was_running

\* case AUDIO_CMD_RESTART_WWD, up to the end of audio_capture_stop_wait;
\* the position keeps was_running
HandleRestartWwdBegin ==
  /\ Dequeue("RESTART_WWD")
  /\ queue' = Tail(queue)
  /\ apc' = IF wwd_state.running THEN "restart_armed" ELSE "restart_idle"
  /\ wwd_state' = WwdStop(wwd_state)
  /\ SetCap(AudioCaptureStop(Cap))
  /\ UNCHANGED << wwd_threshold, paused_music, wake_detect_pending,
                  music_paused_for_notification, music_paused_for_tts,
                  wwd_init_result, main_pc, last_post, sessVars, feed_log,
                  unitVars, vad_enabled, extVars >>

\* case AUDIO_CMD_RESTART_WWD from wwd_deinit on; ok: the new detector
\* could be created
HandleRestartWwdEnd ==
  /\ apc \in { "restart_armed", "restart_idle" }
  /\ apc' = "wait"
  /\ \E ok \in BOOLEAN :
       LET was_running == apc = "restart_armed"
           w1  == WwdDeinit(wwd_state)
           res == WwdInitResult(w1, ok, MaxChunk)
           repost == RestartRepost(was_running, res)
       IN  /\ wwd_state' = WwdInit(w1, ok, MaxChunk, wwd_threshold)
           /\ wwd_init_result' = res
           /\ queue' = IF repost THEN AudioPostCmd(queue, "RESUME_WWD")
                       ELSE queue
           /\ last_post' = IF repost THEN PostOutcome(queue) ELSE last_post
  /\ UNCHANGED << wwd_threshold, paused_music, wake_detect_pending,
                  music_paused_for_notification, music_paused_for_tts,
                  main_pc, sessVars, feed_log, unitVars, capVars, extVars >>

\* case AUDIO_CMD_TIMER_BEEP / AUDIO_CMD_ALARM_BEEP, up to the beeps
HandleNotifyBeepBegin ==
  /\ \E c \in { "TIMER_BEEP", "ALARM_BEEP" } : Dequeue(c)
  /\ wwd_state' = WwdStop(wwd_state)
  /\ SetCap(AudioCaptureStop(Cap))
  /\ IF music_init /\ music_state = "PLAYING"
       THEN /\ music_state' = MusicPause(music_state)
            /\ queue' = QueueAfterMusic(Tail(queue), music_state,
                                        MusicPause(music_state))
            /\ last_post' = PostOutcome(Tail(queue))
            /\ music_paused_for_notification' = TRUE
       ELSE /\ queue' = Tail(queue)
            /\ music_paused_for_notification' = FALSE
            /\ UNCHANGED << music_state, last_post >>
  /\ tone' = "notify"
  /\ apc' = "notify_beep"
  /\ UNCHANGED << paused_music, wake_detect_pending, music_paused_for_tts,
                  wwd_init_result, wwd_threshold, main_pc, sessVars,
                  feed_log, unitVars, vad_enabled, ha_state, audio_ready,
                  tts_playing, music_init, timer, events >>

\* case AUDIO_CMD_TIMER_BEEP / AUDIO_CMD_ALARM_BEEP, after the beeps
HandleNotifyBeepEnd ==
  /\ apc = "notify_beep"
  /\ tone' = "none"
  /\ music_paused_for_notification' = FALSE
  /\ IF music_paused_for_notification /\ music_init
       THEN LET st == MusicResume(music_state)
                q1 == QueueAfterMusic(queue, music_state, st)
                l1 == PostAfterMusic(queue, music_state, st, last_post)
            IN  /\ music_state' = st
                /\ queue' = IF st = "PLAYING" THEN q1
                            ELSE AudioPostCmd(q1, "RESUME_WWD")
                /\ last_post' = IF st = "PLAYING" THEN l1
                                ELSE PostOutcome(q1)
       ELSE /\ queue' = AudioPostCmd(queue, "RESUME_WWD")
            /\ last_post' = PostOutcome(queue)
            /\ UNCHANGED music_state
  /\ apc' = "wait"
  /\ UNCHANGED << paused_music, wake_detect_pending, music_paused_for_tts,
                  wwd_init_result, wwd_threshold, main_pc, sessVars,
                  wwdVars, unitVars, capVars, ha_state, audio_ready,
                  tts_playing, music_init, timer, events >>

\* case AUDIO_CMD_TIMER_CONFIRM_BEEP / AUDIO_CMD_TIMER_ERROR_BEEP, up to
\* the beeps
HandleFeedbackBeepBegin ==
  /\ \E c \in { "TIMER_CONFIRM_BEEP", "TIMER_ERROR_BEEP" } : Dequeue(c)
  /\ SetCap(AudioCaptureStop(Cap))
  /\ IF music_init /\ music_state = "PLAYING"
       THEN /\ music_state' = MusicPause(music_state)
            /\ queue' = QueueAfterMusic(Tail(queue), music_state,
                                        MusicPause(music_state))
            /\ last_post' = PostOutcome(Tail(queue))
            /\ paused_music' = TRUE
       ELSE /\ queue' = Tail(queue)
            /\ paused_music' = FALSE
            /\ UNCHANGED << music_state, last_post >>
  /\ tone' = "feedback"
  /\ apc' = "feedback_beep"
  /\ UNCHANGED << wake_detect_pending, music_paused_for_notification,
                  music_paused_for_tts, wwd_init_result, wwd_threshold,
                  main_pc, sessVars, wwdVars, unitVars, vad_enabled,
                  ha_state, audio_ready, tts_playing, music_init, timer,
                  events >>

\* case AUDIO_CMD_TIMER_CONFIRM_BEEP / AUDIO_CMD_TIMER_ERROR_BEEP, after
\* the beeps
HandleFeedbackBeepEnd ==
  /\ apc = "feedback_beep"
  /\ tone' = "none"
  /\ paused_music' = FALSE
  /\ IF paused_music /\ music_init
       THEN /\ music_state' = MusicResume(music_state)
            /\ queue' = QueueAfterMusic(queue, music_state,
                                        MusicResume(music_state))
            /\ last_post' = PostAfterMusic(queue, music_state,
                                           MusicResume(music_state), last_post)
       ELSE UNCHANGED << music_state, queue, last_post >>
  /\ apc' = "wait"
  /\ UNCHANGED << wake_detect_pending, music_paused_for_notification,
                  music_paused_for_tts, wwd_init_result, wwd_threshold,
                  main_pc, sessVars, wwdVars, unitVars, capVars, ha_state,
                  audio_ready, tts_playing, music_init, timer, events >>

\* case AUDIO_CMD_MUSIC_PLAY
HandleMusicPlay ==
  /\ Dequeue("MUSIC_PLAY")
  /\ IF ~music_init
       THEN /\ queue' = Tail(queue)
            /\ UNCHANGED << wwd_state, is_capturing, capture_callback,
                            music_state, last_post >>
       ELSE /\ wwd_state' = WwdStop(wwd_state)
            /\ SetCap(AudioCaptureStop(Cap))
            /\ music_state' = "PLAYING"
            /\ queue' = QueueAfterMusic(Tail(queue), music_state, "PLAYING")
            /\ last_post' = PostAfterMusic(Tail(queue), music_state,
                                           "PLAYING", last_post)
  /\ UNCHANGED << apc, paused_music, wake_detect_pending,
                  music_paused_for_notification, music_paused_for_tts,
                  wwd_init_result, wwd_threshold, main_pc, sessVars,
                  feed_log, unitVars, vad_enabled, ha_state, audio_ready,
                  tts_playing, music_init, tone, timer, events >>

MusicCtlCommands ==
  { "MUSIC_STOP", "MUSIC_PAUSE", "MUSIC_RESUME", "MUSIC_NEXT",
    "MUSIC_PREVIOUS" }

\* what the player call of a music command leaves as the player state
MusicOp(c, st) ==
  CASE c = "MUSIC_STOP"   -> "STOPPED"
    [] c = "MUSIC_PAUSE"  -> MusicPause(st)
    [] c = "MUSIC_RESUME" -> MusicResume(st)
    [] OTHER              -> st

\* case AUDIO_CMD_MUSIC_STOP / PAUSE / RESUME / NEXT / PREVIOUS
HandleMusicCtl ==
  \E c \in MusicCtlCommands :
    /\ Dequeue(c)
    /\ IF ~music_init
         THEN /\ queue' = Tail(queue)
              /\ UNCHANGED << music_state, last_post >>
         ELSE /\ music_state' = MusicOp(c, music_state)
              /\ queue' = QueueAfterMusic(Tail(queue), music_state,
                                          MusicOp(c, music_state))
              /\ last_post' = PostAfterMusic(Tail(queue), music_state,
                                             MusicOp(c, music_state),
                                             last_post)
    /\ UNCHANGED << apc, paused_music, wake_detect_pending,
                    music_paused_for_notification, music_paused_for_tts,
                    wwd_init_result, wwd_threshold, main_pc, sessVars,
                    wwdVars, unitVars, capVars, ha_state, audio_ready,
                    tts_playing, music_init, tone, timer, events >>

\* every step of audio_cmd_task
ArbiterNext ==
  \/ HandleWakeBegin \/ HandleWakeEnd
  \/ HandleResumeWwd
  \/ HandleErrorResumeBegin \/ HandleErrorResumeEnd
  \/ HandleStopWwd
  \/ HandleRestartWwdBegin
  \/ HandleRestartWwdEnd
  \/ HandleNotifyBeepBegin \/ HandleNotifyBeepEnd
  \/ HandleFeedbackBeepBegin \/ HandleFeedbackBeepEnd
  \/ HandleMusicPlay
  \/ HandleMusicCtl

(***************************************************************************)
(* The capture producer task and the callbacks it runs.                    *)
(***************************************************************************)

\* a frame in wake-word mode: wwd_audio_feed_wrapper -> wwd_feed_audio, and
\* on a detection on_wake_word_detected
ProducerWakeFeed ==
  /\ is_capturing
  /\ capture_callback = WWD_FEED
  /\ \E det \in { 0, 1 } :
       LET r    == WwdFeedAudio(wwd_state, MaxChunk, det)
           fire == r.callbacks > 0 /\ ~wake_detect_pending
       IN  /\ wwd_state' = WwdAfterFeed(wwd_state, r)
           /\ wake_detect_pending' = (wake_detect_pending \/ r.callbacks > 0)
           /\ queue' = IF fire THEN AudioPostCmd(queue, "WAKE_DETECTED")
                       ELSE queue
           /\ last_post' = IF fire THEN PostOutcome(queue) ELSE last_post
  /\ UNCHANGED << apc, paused_music, music_paused_for_notification,
                  music_paused_for_tts, wwd_init_result, wwd_threshold,
                  main_pc, sessVars, feed_log, unitVars, capVars, extVars >>

\* pipeline_error_handler
PipelineErrorHandler ==
  /\ SessionCleared
  /\ queue' = AudioPostCmd(queue, "PIPELINE_ERROR_RESUME")
  /\ last_post' = PostOutcome(queue)

\* audio_capture_handler that forwards from the last warm-up frame on
WarmupPendingButLast(w) == w > 1

\* audio_capture_handler: warmup_chunks_skip > 0
WarmupPending(w) == w > 0

\* a frame in recording mode: audio_capture_handler; res is what
\* ha_client_stream_audio returns when it is called
ProducerRecFrame ==
  /\ is_capturing
  /\ capture_callback = CAPTURE_HANDLER
  /\ pipeline_active
  /\ pipeline_handler # NULL
  /\ audio_ready
  /\ IF WarmupPending(warmup_chunks_skip)
       THEN /\ warmup_chunks_skip' = warmup_chunks_skip - 1
            /\ UNCHANGED << pipeline_handler, pipeline_active,
                            audio_chunks_sent, queue, last_post >>
       ELSE \E res \in { "ESP_OK", "ESP_FAIL" } :
              IF res = "ESP_OK"
                THEN /\ audio_chunks_sent < MaxChunksSent
                     /\ audio_chunks_sent' = audio_chunks_sent + 1
                     /\ UNCHANGED << pipeline_handler, pipeline_active,
                                     warmup_chunks_skip, queue, last_post >>
                ELSE /\ Backlog
                     /\ PipelineErrorHandler
                     /\ UNCHANGED warmup_chunks_skip
  /\ UNCHANGED << apc, paused_music, wake_detect_pending,
                  music_paused_for_notification, music_paused_for_tts,
                  wwd_init_result, wwd_threshold, main_pc, wwdVars,
                  unitVars, capVars, extVars >>

\* the VAD reports SPEECH_END on a frame: vad_event_handler
ProducerVadSpeechEnd ==
  /\ is_capturing
  /\ capture_callback = CAPTURE_HANDLER
  /\ vad_enabled
  /\ SessionCleared
  /\ SetCap(AudioCaptureStop(Cap))
  /\ ha_state' = IF ha_state = "session" THEN "processing" ELSE ha_state
  /\ audio_ready' = FALSE
  /\ UNCHANGED << arbVars, warmup_chunks_skip, wwdVars, unitVars,
                  vad_enabled, tts_playing, music_init, music_state, tone,
                  timer, events >>

(***************************************************************************)
(* The backend client and the callbacks it runs.                           *)
(***************************************************************************)

\* run-start arrived: the binary handler id is known
HaRunStart ==
  /\ ha_state = "session"
  /\ ~audio_ready
  /\ audio_ready' = TRUE
  /\ UNCHANGED << arbVars, sessVars, wwdVars, unitVars, capVars, ha_state,
                  tts_playing, music_init, music_state, tone, timer, events >>

\* the backend reports an error of the run: pipeline_error_handler
HaPipelineError ==
  /\ Backlog
  /\ ha_state \in { "session", "processing" }
  /\ ha_state' = "idle"
  /\ audio_ready' = FALSE
  /\ PipelineErrorHandler
  /\ UNCHANGED << apc, paused_music, wake_detect_pending,
                  music_paused_for_notification, music_paused_for_tts,
                  wwd_init_result, wwd_threshold, main_pc,
                  warmup_chunks_skip, wwdVars, unitVars, capVars,
                  tts_playing, music_init, music_state, tone, timer, events >>

\* intent_handler on a timer intent; ok: the timer could be started (one
\* more event of the budget)
HaIntentTimer ==
  /\ Backlog
  /\ ha_state = "processing"
  /\ ha_state' = "run_end"
  /\ \E ok \in BOOLEAN :
       /\ ok => (timer = "idle" /\ events < MaxEvents)
       /\ timer' = IF ok THEN "running" ELSE timer
       /\ events' = IF ok THEN events + 1 ELSE events
       /\ queue' = AudioPostCmd(queue, IF ok THEN "TIMER_CONFIRM_BEEP"
                                       ELSE "TIMER_ERROR_BEEP")
  /\ last_post' = PostOutcome(queue)
  /\ UNCHANGED << apc, paused_music, wake_detect_pending,
                  music_paused_for_notification, music_paused_for_tts,
                  wwd_init_result, wwd_threshold, main_pc, sessVars,
                  wwdVars, unitVars, capVars, audio_ready, tts_playing,
                  music_init, music_state, tone >>

\* conversation_response_handler with the empty text of run-end
HaResponseEmpty ==
  /\ Backlog
  /\ ha_state \in { "processing", "run_end" }
  /\ ha_state' = "idle"
  /\ queue' = AudioPostCmd(queue, "RESUME_WWD")
  /\ last_post' = PostOutcome(queue)
  /\ UNCHANGED << apc, paused_music, wake_detect_pending,
                  music_paused_for_notification, music_paused_for_tts,
                  wwd_init_result, wwd_threshold, main_pc, sessVars,
                  wwdVars, unitVars, capVars, audio_ready, tts_playing,
                  music_init, music_state, tone, timer, events >>

\* conversation_response_handler with a spoken reply; k is the music
\* command its text names ("none": it names none)
HaResponseSpeech ==
  /\ Backlog
  /\ ha_state = "processing"
  /\ ha_state' = "tts_pending"
  /\ \E k \in { "none", "MUSIC_PLAY" } \cup MusicCtlCommands :
       /\ queue' = IF k # "none" /\ music_init THEN AudioPostCmd(queue, k)
                   ELSE queue
       /\ last_post' = IF k # "none" /\ music_init THEN PostOutcome(queue)
                       ELSE last_post
  /\ UNCHANGED << apc, paused_music, wake_detect_pending,
                  music_paused_for_notification, music_paused_for_tts,
                  wwd_init_result, wwd_threshold, main_pc, sessVars,
                  wwdVars, unitVars, capVars, audio_ready, tts_playing,
                  music_init, music_state, tone, timer, events >>

\* tts_audio_handler; fed: tts_player_feed accepted the audio
TtsAudioHandler(fed) ==
  /\ IF music_init /\ music_state = "PLAYING"
       THEN /\ music_state' = MusicPause(music_state)
            /\ music_paused_for_tts' = TRUE
            /\ queue' = QueueAfterMusic(queue, music_state,
                                        MusicPause(music_state))
            /\ last_post' = PostOutcome(queue)
       ELSE UNCHANGED << music_state, music_paused_for_tts, queue,
                         last_post >>
  /\ tts_playing' = (tts_playing \/ fed)

\* the reply's audio arrives
HaTtsAudio ==
  /\ Backlog
  /\ ha_state = "tts_pending"
  /\ ha_state' = "idle"
  /\ \E fed \in BOOLEAN : TtsAudioHandler(fed)
  /\ UNCHANGED << apc, paused_music, wake_detect_pending,
                  music_paused_for_notification, wwd_init_result,
                  wwd_threshold, main_pc, sessVars, wwdVars, unitVars,
                  capVars, audio_ready, music_init, tone, timer, events >>

\* a handler that posts RESUME_WWD whatever the player does
TtsKeepWwdDisabledNever(st) == FALSE

\* "Keeping WWD disabled while music is playing"
TtsKeepWwdDisabled(st) == st \in { "PLAYING", "PAUSED" }

\* the TTS player finished: tts_playback_complete_handler
TtsPlaybackComplete ==
  /\ Backlog
  /\ tts_playing
  /\ tts_playing' = FALSE
  /\ IF music_paused_for_tts /\ music_init
       THEN LET st == MusicResume(music_state)
                q1 == QueueAfterMusic(queue, music_state, st)
                l1 == PostAfterMusic(queue, music_state, st, last_post)
                keep == TtsKeepWwdDisabled(st)
            IN  /\ music_state' = st
                /\ music_paused_for_tts' = FALSE
                /\ queue' = IF keep THEN q1 ELSE AudioPostCmd(q1, "RESUME_WWD")
                /\ last_post' = IF keep THEN l1 ELSE PostOutcome(q1)
       ELSE /\ queue' = AudioPostCmd(queue, "RESUME_WWD")
            /\ last_post' = PostOutcome(queue)
            /\ UNCHANGED << music_state, music_paused_for_tts >>
  /\ UNCHANGED << apc, paused_music, wake_detect_pending,
                  music_paused_for_notification, wwd_init_result,
                  wwd_threshold, main_pc, sessVars, wwdVars, unitVars,
                  capVars, ha_state, audio_ready, music_init, tone, timer,
                  events >>

(***************************************************************************)
(* The music player reaching the end of its playlist.                      *)
(***************************************************************************)
MusicTrackEnd ==
  /\ Backlog
  /\ music_init
  /\ music_state = "PLAYING"
  /\ music_state' = "STOPPED"
  /\ queue' = QueueAfterMusic(queue, music_state, "STOPPED")
  /\ last_post' = PostOutcome(queue)
  /\ UNCHANGED << apc, paused_music, wake_detect_pending,
                  music_paused_for_notification, music_paused_for_tts,
                  wwd_init_result, wwd_threshold, main_pc, sessVars,
                  wwdVars, unitVars, capVars, ha_state, audio_ready,
                  tts_playing, music_init, tone, timer, events >>

(***************************************************************************)
(* timer_manager.c: the tick task.                                         *)
(***************************************************************************)

\* check_warning_beeps on a warning boundary: beep_tone_play in the tick task
TimerWarningBeepBegin ==
  /\ timer = "running"
  /\ timer' = "warning"
  /\ UNCHANGED << arbVars, sessVars, wwdVars, unitVars, capVars, ha_state,
                  audio_ready, tts_playing, music_init, music_state, tone,
                  events >>

TimerWarningBeepEnd ==
  /\ timer = "warning"
  /\ timer' = "running"
  /\ UNCHANGED << arbVars, sessVars, wwdVars, unitVars, capVars, ha_state,
                  audio_ready, tts_playing, music_init, music_state, tone,
                  events >>

\* the timer expires: timer_finished_callback
TimerFinished ==
  /\ Backlog
  /\ timer = "running"
  /\ timer' = "idle"
  /\ queue' = AudioPostCmd(queue, "TIMER_BEEP")
  /\ last_post' = PostOutcome(queue)
  /\ UNCHANGED << apc, paused_music, wake_detect_pending,
                  music_paused_for_notification, music_paused_for_tts,
                  wwd_init_result, wwd_threshold, main_pc, sessVars,
                  wwdVars, unitVars, capVars, ha_state, audio_ready,
                  tts_playing, music_init, music_state, tone, events >>

(***************************************************************************)
(* The control surface (MQTT entities), at most MaxEvents events a run.    *)
(***************************************************************************)

\* a callback outside the arbiter posts cmd and does nothing else
PostFromOutside(cmd) ==
  /\ queue' = AudioPostCmd(queue, cmd)
  /\ last_post' = PostOutcome(queue)
  /\ UNCHANGED << apc, paused_music, wake_detect_pending,
                  music_paused_for_notification, music_paused_for_tts,
                  wwd_init_result, wwd_threshold, main_pc, sessVars,
                  wwdVars, unitVars, capVars, ha_state, audio_ready,
                  tts_playing, music_init, music_state, tone, timer >>

\* an event of the control surface that posts cmd
ControlPost(cmd) ==
  /\ Backlog
  /\ events < MaxEvents
  /\ events' = events + 1
  /\ PostFromOutside(cmd)

\* mqtt_wwd_switch_callback
MqttWwdSwitch ==
  \E on \in BOOLEAN : ControlPost(IF on THEN "RESUME_WWD" ELSE "STOP_WWD")

\* payloads of the threshold entity in the whole-system specification: the
\* value in use and another one
ThresholdPayloads == { DEFAULT_THRESHOLD, THRESHOLD_MAX }

\* mqtt_wwd_threshold_callback
MqttWwdThreshold ==
  /\ Backlog
  /\ events < MaxEvents
  /\ events' = events + 1
  /\ \E t \in ThresholdPayloads : wwd_threshold' = t
  /\ queue' = AudioPostCmd(queue, "RESTART_WWD")
  /\ last_post' = PostOutcome(queue)
  /\ UNCHANGED << apc, paused_music, wake_detect_pending,
                  music_paused_for_notification, music_paused_for_tts,
                  wwd_init_result, main_pc, sessVars, wwdVars, unitVars,
                  capVars, ha_state, audio_ready, tts_playing, music_init,
                  music_state, tone, timer >>

\* mqtt_music_play_callback .. mqtt_music_previous_callback
MqttMusic ==
  \E c \in { "MUSIC_PLAY" } \cup MusicCtlCommands : ControlPost(c)

\* alarm_triggered_callback
AlarmTriggered == ControlPost("ALARM_BEEP")

\* mqtt_test_tts_callback and the audio it requests
MqttTestTts ==
  /\ Backlog
  /\ events < MaxEvents
  /\ events' = events + 1
  /\ \E fed \in BOOLEAN : TtsAudioHandler(fed)
  /\ UNCHANGED << apc, paused_music, wake_detect_pending,
                  music_paused_for_notification, wwd_init_result,
                  wwd_threshold, main_pc, sessVars, wwdVars, unitVars,
                  capVars, ha_state, audio_ready, music_init, tone, timer >>

\* the network callback with the SD card mounted, in builds that keep the
\* model on the card: init_wake_word_detection_if_needed and the RESUME_WWD
\* it posts; ok: the detector could be created this time
NetworkSdRetry ==
  /\ Backlog
  /\ events < MaxEvents
  /\ events' = events + 1
  /\ wwd_init_result # "OK"
  /\ \E ok \in BOOLEAN :
       LET res  == WwdInitResult(wwd_state, ok, MaxChunk)
           post == res = "OK" /\ ~pipeline_active /\ ~RecordingCapture
       IN  /\ wwd_state' = WwdInit(wwd_state, ok, MaxChunk, wwd_threshold)
           /\ wwd_init_result' = res
           /\ queue' = IF post THEN AudioPostCmd(queue, "RESUME_WWD")
                       ELSE queue
           /\ last_post' = IF post THEN PostOutcome(queue) ELSE last_post
  /\ UNCHANGED << apc, paused_music, wake_detect_pending,
                  music_paused_for_notification, music_paused_for_tts,
                  wwd_threshold, main_pc, sessVars, feed_log, unitVars,
                  capVars, ha_state, audio_ready, tts_playing, music_init,
                  music_state, tone, timer >>

(***************************************************************************)
(* main.c: the last branch of app_main.                                    *)
(***************************************************************************)
AppMainCheck ==
  /\ main_pc = "check"
  /\ IF wwd_init_result = "OK" /\ ~wwd_state.running
       THEN /\ queue' = AudioPostCmd(queue, "RESUME_WWD")
            /\ last_post' = PostOutcome(queue)
            /\ main_pc' = "done"
       ELSE /\ main_pc' = "vad_delay"
            /\ UNCHANGED << queue, last_post >>
  /\ UNCHANGED << apc, paused_music, wake_detect_pending,
                  music_paused_for_notification, music_paused_for_tts,
                  wwd_init_result, wwd_threshold, sessVars, wwdVars,
                  unitVars, capVars, extVars >>

\* test_audio_streaming called by app_main after its 5 s delay
AppMainVadStart ==
  /\ main_pc = "vad_delay"
  /\ main_pc' = "done"
  /\ \E o \in StreamingOutcomes : TestAudioStreaming(o)
  /\ UNCHANGED << queue, apc, paused_music, wake_detect_pending,
                  music_paused_for_notification, music_paused_for_tts,
                  wwd_init_result, wwd_threshold, last_post, wwdVars,
                  unitVars, tts_playing, music_init, music_state, tone,
                  timer, events >>

(***************************************************************************)
(* Spec: the whole system from the end of app_main's initialisation.       *)
(***************************************************************************)
\* the state at app_main's last branch: the switch entity (registered before app_main reaches its
\* last branch) may already have been turned on: mqtt_wwd_switch_callback
\* has then posted RESUME_WWD
InitStartup ==
  /\ InitCommon
  /\ det_threshold = << >>
  /\ agc = AgcInit(AgcDefaultConfig)
  /\ \E on \in BOOLEAN :
       /\ queue = IF on THEN AudioPostCmd(<< >>, "RESUME_WWD") ELSE << >>
       /\ last_post = IF on THEN "sent" ELSE "none"

Init ==
  /\ InitStartup
  /\ main_pc = "check"
  /\ music_init \in BOOLEAN
  /\ \E ok \in BOOLEAN :
       /\ wwd_state = WwdInit(WwdUninit, ok, MaxChunk, DEFAULT_THRESHOLD)
       /\ wwd_init_result = WwdInitResult(WwdUninit, ok, MaxChunk)

ProducerNext ==
  ProducerWakeFeed \/ ProducerRecFrame \/ ProducerVadSpeechEnd

BackendNext ==
  \/ HaRunStart \/ HaPipelineError \/ HaIntentTimer \/ HaResponseEmpty
  \/ HaResponseSpeech \/ HaTtsAudio \/ TtsPlaybackComplete

TimerNext ==
  TimerWarningBeepBegin \/ TimerWarningBeepEnd \/ TimerFinished

ControlNext ==
  \/ MqttWwdSwitch \/ MqttWwdThreshold \/ MqttMusic \/ AlarmTriggered
  \/ MqttTestTts
  \/ NetworkSdRetry

AppMainNext == AppMainCheck \/ AppMainVadStart

Next ==
  \/ ArbiterNext
  \/ ProducerNext
  \/ BackendNext
  \/ MusicTrackEnd
  \/ TimerNext
  \/ ControlNext
  \/ AppMainNext

Spec == Init /\ [][Next]_vars

(***************************************************************************)
(* SpecQueue: the switch entity toggled without pause, the arbiter         *)
(* handling what it finds: the queue fills up.                             *)
(***************************************************************************)
InitQueue ==
  /\ InitRest
  /\ det_threshold = << >>
  /\ agc = AgcInit(AgcDefaultConfig)
  /\ main_pc = "done"
  /\ music_init = FALSE
  /\ wwd_state = WwdInit(WwdUninit, TRUE, MaxChunk, DEFAULT_THRESHOLD)
  /\ wwd_init_result = WwdInitResult(WwdUninit, TRUE, MaxChunk)

\* mqtt_wwd_switch_callback, as often as the broker delivers
WwdSwitchFlood ==
  /\ \E on \in BOOLEAN :
       PostFromOutside(IF on THEN "RESUME_WWD" ELSE "STOP_WWD")
  /\ UNCHANGED events

NextQueue == WwdSwitchFlood \/ HandleResumeWwd \/ HandleStopWwd

SpecQueue == InitQueue /\ [][NextQueue]_vars

(***************************************************************************)
(* C8: a post never blocks: with a free slot the command is appended, with *)
(* the queue full (QUEUE_LEN commands) it is dropped and the queue content  *)
(* is unchanged; the poster goes on either way.                            *)
(***************************************************************************)
C8_PostNeverBlocks ==
  [][ WwdSwitchFlood =>
        /\ Len(queue) < QUEUE_LEN =>
             \E c \in { "RESUME_WWD", "STOP_WWD" } : queue' = Append(queue, c)
        /\ Len(queue) = QUEUE_LEN => queue' = queue
        /\ last_post' = IF Len(queue) < QUEUE_LEN THEN "sent" ELSE "dropped"
        /\ apc' = apc ]_vars

\* a post met the full queue and was dropped
C8_Witness ==
  /\ last_post = "dropped"
  /\ Len(queue) = QUEUE_LEN

(***************************************************************************)
(* C1: at most one owner holds the audio device at any instant: wake-word  *)
(* capture, recording capture, TTS playback, music playback and tone       *)
(* playback (ack, notification, timer warning beep) are never active       *)
(* together.                                                               *)
(***************************************************************************)
C1_SingleOwner == Cardinality(Owners) <= 1

\* capture was started or stopped, or the session state changed
CaptureOrSessionChange ==
  \/ is_capturing' # is_capturing
  \/ capture_callback' # capture_callback
  \/ pipeline_active' # pipeline_active
  \/ pipeline_handler' # pipeline_handler

(***************************************************************************)
(* C2: every start or stop of capture and every change of the session      *)
(* state is a step of the arbiter task handling a dequeued command; no     *)
(* other thread (capture producer, backend callback, timer tick, startup   *)
(* code) makes one.                                                        *)
(***************************************************************************)
C2_ArbiterOnly == [][ CaptureOrSessionChange => ArbiterNext ]_vars

\* q2 is q with commands appended at its tail
IsPrefixOf(q, q2) ==
  /\ Len(q) <= Len(q2)
  /\ SubSeq(q2, 1, Len(q)) = q

\* where audio_cmd_task stands after it dequeued cmd: in a blocking call of
\* the handler of cmd, or back at the receive
AfterDequeue(cmd) ==
  CASE cmd = "WAKE_DETECTED" -> { "wake_beep" }
    [] cmd = "PIPELINE_ERROR_RESUME" -> { "error_delay" }
    [] cmd = "RESTART_WWD" -> { "restart_armed", "restart_idle" }
    [] cmd \in { "TIMER_BEEP", "ALARM_BEEP" } -> { "notify_beep" }
    [] cmd \in { "TIMER_CONFIRM_BEEP", "TIMER_ERROR_BEEP" } ->
         { "feedback_beep" }
    [] OTHER -> { "wait" }

(***************************************************************************)
(* C3: accepted commands are handled one at a time in the order they were  *)
(* enqueued: the queue only loses its head, only while the arbiter waits   *)
(* at the receive, and the handler of that head (with the posts it makes   *)
(* itself, which go to the tail) runs to its end before the next head is   *)
(* taken; everything else only appends at the tail.                        *)
(***************************************************************************)
C3_FifoNoInterleave ==
  [][ \/ /\ IsPrefixOf(queue, queue')
         /\ apc = "wait" => apc' = "wait"
         /\ apc' # "wait" => apc' = apc
      \/ /\ apc = "wait"
         /\ queue # << >>
         /\ IsPrefixOf(Tail(queue), queue')
         /\ apc' \in AfterDequeue(Head(queue))
         /\ ArbiterNext ]_vars

\* a command is being handled while another one waits behind it
C3_Witness ==
  /\ apc = "error_delay"
  /\ queue # << >>

(***************************************************************************)
(* C4: a WAKE_DETECTED command handled while Mode = RECORDING is ignored:  *)
(* the running capture is not stopped and the session is left untouched.   *)
(***************************************************************************)
C4_WakeIgnoredWhileRecording ==
  [][ (HandleWakeBegin /\ RecordingCapture) =>
        UNCHANGED << capVars, sessVars, wwd_state, tone >> ]_vars

(***************************************************************************)
(* C5: STOP_WWD handled while Mode = RECORDING leaves the system IDLE with *)
(* the session torn down: inactive, handle released, stream ended.         *)
(***************************************************************************)
C5_StopTearsDownSession ==
  [][ (HandleStopWwd /\ RecordingCapture /\ pipeline_active) =>
        /\ ~is_capturing'
        /\ ~pipeline_active'
        /\ pipeline_handler' = NULL
        /\ ha_state' # "session" ]_vars

\* a step that runs pipeline_error_handler
PipelineErrorStep ==
  \/ HaPipelineError
  \/ ProducerRecFrame /\ ~pipeline_active'

(***************************************************************************)
(* C6: on a pipeline error the session state is cleared (inactive, handle  *)
(* null, chunk counter zero) and the system is IDLE.                       *)
(***************************************************************************)
C6_ErrorLeavesIdle ==
  [][ PipelineErrorStep =>
        /\ ~pipeline_active'
        /\ pipeline_handler' = NULL
        /\ audio_chunks_sent' = 0
        /\ ~RecordingCapture'
        /\ ~WakeWordCapture' ]_vars

\* a resume of listening is on its way to the arbiter
ResumeScheduled ==
  \E i \in 1 .. Len(queue) :
    queue[i] \in { "PIPELINE_ERROR_RESUME", "RESUME_WWD" }

(***************************************************************************)
(* C7: when the session cannot be started while the arbiter handles        *)
(* WAKE_DETECTED (VAD, session or capture fails), the arbiter ends with    *)
(* capture stopped and no session resources, and a resume of listening is  *)
(* scheduled.                                                              *)
(***************************************************************************)
C7_FailureSchedulesResume ==
  [][ (HandleWakeEnd /\ ~pipeline_active /\ ~pipeline_active') =>
        /\ ~is_capturing'
        /\ pipeline_handler' = NULL
        /\ ResumeScheduled' ]_vars

(***************************************************************************)
(* C9: the ack tone of WAKE_DETECTED comes after the detector was disarmed *)
(* and capture stopped, and before capture is started again: it is never   *)
(* played while capture runs.                                              *)
(***************************************************************************)
C9_ToneAfterStop ==
  tone = "ack" => (~wwd_state.running /\ ~is_capturing)

InitStream ==
  /\ InitCommon
  /\ det_threshold = << >>
  /\ agc = AgcInit(AgcDefaultConfig)
  /\ queue = << "RESUME_WWD" >>
  /\ last_post = "sent"
  /\ main_pc = "done"
  /\ music_init = FALSE
  /\ wwd_state = WwdInit(WwdUninit, TRUE, MaxChunk, DEFAULT_THRESHOLD)
  /\ wwd_init_result = WwdInitResult(WwdUninit, TRUE, MaxChunk)

\* case AUDIO_CMD_WAKE_DETECTED, from the end of the tone
HandleWakeEndUnscaled == HandleWakeEndWith(WARMUP_CHUNKS)

NextStream ==
  \/ HandleResumeWwd
  \/ ProducerWakeFeed
  \/ HandleWakeBegin
  \/ HandleWakeEndUnscaled
  \/ HaRunStart
  \/ ProducerRecFrame
  \/ ProducerVadSpeechEnd
  \/ HaPipelineError
  \/ HaResponseEmpty
  \/ HandleErrorResumeBegin
  \/ HandleErrorResumeEnd

SpecStream == InitStream /\ [][NextStream]_vars

\* a frame is handed to ha_client_stream_audio and accepted
FrameForwarded == audio_chunks_sent' > audio_chunks_sent

(***************************************************************************)
(* C18: a session starts with 10 warm-up frames to drop; a frame is        *)
(* forwarded only when all of them were dropped, one per frame, and only   *)
(* while the session is active, its handle is non-null and the stream      *)
(* channel is ready; a dropped warm-up frame is not forwarded.             *)
(***************************************************************************)
C18_WarmupBeforeForward ==
  [][ /\ (~pipeline_active /\ pipeline_active') =>
            (warmup_chunks_skip' = 10 /\ audio_chunks_sent' = 0)
      /\ FrameForwarded =>
            /\ warmup_chunks_skip = 0
            /\ pipeline_active
            /\ pipeline_handler # NULL
            /\ audio_ready
            /\ audio_chunks_sent' = audio_chunks_sent + 1
      /\ warmup_chunks_skip' # warmup_chunks_skip =>
            \/ /\ HandleWakeEndUnscaled
               /\ warmup_chunks_skip' = 10
            \/ /\ ProducerRecFrame
               /\ warmup_chunks_skip' = warmup_chunks_skip - 1
               /\ ~FrameForwarded
               /\ audio_chunks_sent = 0 ]_vars

\* a frame of the session was forwarded after the warm-up
C18_Witness ==
  /\ pipeline_active
  /\ audio_chunks_sent = 1
  /\ warmup_chunks_skip = 0

(***************************************************************************)
(* SpecAgc: an instance with the default or the instant configuration is   *)
(* fed one frame over and over, then a second frame over and over.         *)
(***************************************************************************)
\* the frames fed: none, silence, below the gate, at the gate, quiet,
\* about the target level, loud
AgcFrames ==
  { << >>, << 0, 0 >>, << 30, -30 >>, << 50, -50 >>, << 1000, 1000 >>,
    << 3000, -4000 >>, << 16000, -16000 >> }

InitAgc ==
  /\ InitRest
  /\ det_threshold = << >>
  /\ wwd_init_result = "OK"
  /\ main_pc = "done"
  /\ music_init = FALSE
  /\ wwd_state = WwdInit(WwdUninit, TRUE, MaxChunk, DEFAULT_THRESHOLD)
  /\ \E config \in { AgcDefaultConfig, AgcInstantConfig } :
       agc = AgcInit(config)

\* the caller turns to another input, once
AgcChangeInput ==
  /\ agc_log.segments < 2
  /\ \E audio \in AgcFrames \ { agc_log.input } :
       agc_log' = [ agc_log EXCEPT !.segments = @ + 1, !.input = audio,
                                   !.run = 0 ]
  /\ UNCHANGED << arbVars, sessVars, wwdVars, capVars, extVars,
                  unitButAgc, agc >>

AgcProcessFrames(most) ==
  /\ agc_log.segments >= 1
  /\ agc_log.run < most
  /\ LET r == AgcProcess(agc, agc_log.input) IN
     /\ agc' = r.agc
     /\ agc_log' = [ agc_log EXCEPT !.called = TRUE, !.run = @ + 1,
                                    !.prev = agc, !.out = r.audio,
                                    !.ret = r.ret ]
  /\ UNCHANGED << arbVars, sessVars, wwdVars, capVars, extVars,
                  unitButAgc >>

AgcProcessCall == AgcProcessFrames(MaxAgcRun)

NextAgc == AgcChangeInput \/ AgcProcessCall

SpecAgc == InitAgc /\ [][NextAgc]_vars

\* the latest call processed a frame of the run's input
AgcCalled == agc_log.called /\ agc_log.run >= 1 /\ agc_log.ret = "ESP_OK"

\* the RMS of the run's input
AgcInputRms == CalculateRms(agc_log.input)

\* C19: a frame whose RMS is below noise_gate_threshold comes back from
\* agc_process with every sample equal to its input value, and current_gain
\* is what it was before the call.
C19_GatedPassThrough ==
  (AgcCalled /\ AgcInputRms < agc_log.prev.config.noise_gate_threshold)
    => /\ agc_log.out = agc_log.input
       /\ agc.current_gain = agc_log.prev.current_gain

\* a gated frame with a sample other than 0 met a gain other than 1.0
C19_Witness ==
  /\ AgcCalled
  /\ AgcInputRms < agc_log.prev.config.noise_gate_threshold
  /\ agc_log.input = << 30, -30 >>
  /\ agc_log.prev.current_gain > GAIN_ONE
  /\ agc_log.out = agc_log.input
  /\ agc.current_gain = agc_log.prev.current_gain

Abs(x) == IF x < 0 THEN -x ELSE x

\* the latest call adjusted the gain: its frame was at or above the gate
AgcAdjusted ==
  AgcCalled /\ AgcInputRms >= agc_log.prev.config.noise_gate_threshold

\* C20: with a constant input RMS R at or above the noise gate, every
\* agc_process call moves current_gain towards
\* clamp(target_level / R, min_gain, max_gain) and never past it, by the
\* attack coefficient times the distance while the gain rises and by the
\* release coefficient times the distance while it falls, and after
\* ConvergeFrames calls current_gain is within AgcTolerance of that value.
C20_GainConverges ==
  AgcAdjusted =>
    LET target == AgcDesiredGain(agc_log.prev.config, AgcInputRms)
        before == agc_log.prev.current_gain
        after == agc.current_gain
    IN  /\ target > before
             => /\ before <= after /\ after <= target
                /\ after = before
                     + TruncDiv(agc_log.prev.attack_coeff
                                  * (target - before), GAIN_ONE)
        /\ target < before
             => /\ target <= after /\ after <= before
                /\ after = before
                     - TruncDiv(agc_log.prev.release_coeff
                                  * (before - target), GAIN_ONE)
        /\ target = before => after = before
        /\ Abs(target - before) > AgcTolerance => after # before
        /\ agc_log.run >= ConvergeFrames
             => Abs(target - after) <= AgcTolerance

\* the gain of an earlier quiet input has come down to the gain of a loud
\* input, with the release coefficient and over ConvergeFrames frames
C20_Witness ==
  /\ AgcAdjusted
  /\ agc_log.segments = 2
  /\ agc_log.run >= ConvergeFrames
  /\ agc.attack_coeff # agc.release_coeff
  /\ AgcDesiredGain(agc.config, AgcInputRms) = agc.config.min_gain
  /\ agc.clipping_count > 0
  /\ Abs(agc.current_gain - agc.config.min_gain) <= AgcTolerance
  /\ agc.current_gain # agc.config.min_gain

(***************************************************************************)
(* SpecAgcLimits: agc_set_gain_limits called with valid and invalid        *)
(* limits on an instance that has processed up to MaxLimitsRun frames of   *)
(* each of two inputs.                                                     *)
(***************************************************************************)
\* the limits asked for, in thousandths
MinGainInputs == { -500, 0, 500, 2000 }
MaxGainInputs == { 500, 1500, 8000 }

AgcProcessShort == AgcProcessFrames(MaxLimitsRun)

AgcSetGainLimitsCall ==
  /\ agc_log.limits.calls < MaxLimitsCalls
  /\ \E min_gain \in MinGainInputs, max_gain \in MaxGainInputs :
       LET r == AgcSetGainLimits(agc, min_gain, max_gain) IN
       /\ agc' = r.agc
       /\ agc_log' = [ agc_log EXCEPT !.limits =
                         [ calls |-> agc_log.limits.calls + 1,
                           min_gain |-> min_gain, max_gain |-> max_gain,
                           ret |-> r.ret, before |-> agc.current_gain,
                           frames |-> agc.frames_processed ] ]
  /\ UNCHANGED << arbVars, sessVars, wwdVars, capVars, extVars,
                  unitButAgc >>

NextAgcLimits == AgcChangeInput \/ AgcProcessShort \/ AgcSetGainLimitsCall

SpecAgcLimits == InitAgc /\ [][NextAgcLimits]_vars

\* C21: agc_set_gain_limits with min_gain <= 0 or max_gain < min_gain
\* returns ESP_ERR_INVALID_ARG and leaves the instance as it was; any other
\* request returns ESP_OK, replaces the two limits, keeps everything else
\* of the instance but current_gain, and leaves current_gain inside the new
\* limits (unchanged when it already was inside).
C21_GainLimits ==
  [][ (agc_log'.limits # agc_log.limits) =>
        LET l == agc_log'.limits
            invalid == l.min_gain <= 0 \/ l.max_gain < l.min_gain
        IN  /\ invalid => l.ret = "ESP_ERR_INVALID_ARG" /\ agc' = agc
            /\ ~invalid =>
                 /\ l.ret = "ESP_OK"
                 /\ agc'.config =
                      [ agc.config EXCEPT !.min_gain = l.min_gain,
                                          !.max_gain = l.max_gain ]
                 /\ l.min_gain <= agc'.current_gain
                 /\ agc'.current_gain <= l.max_gain
                 /\ (l.min_gain <= agc.current_gain
                       /\ agc.current_gain <= l.max_gain)
                      => agc'.current_gain = agc.current_gain
                 /\ [ agc' EXCEPT !.config = agc.config,
                                  !.current_gain = agc.current_gain ] = agc
    ]_vars

\* a valid request met a gain above the new maximum and brought it down,
\* on an instance that had processed frames
C21_Witness ==
  /\ agc_log.limits.calls > 0
  /\ agc_log.limits.ret = "ESP_OK"
  /\ agc_log.limits.before > agc_log.limits.max_gain
  /\ agc_log.limits.frames > 0
  /\ agc.current_gain = agc_log.limits.max_gain
  /\ agc.config.max_gain = agc_log.limits.max_gain
  /\ agc.frames_processed = agc_log.limits.frames

(***************************************************************************)
(* SpecCapture: audio_capture_start and audio_capture_stop called one      *)
(* after the other by one task, and the capture_task instances they leave  *)
(* behind.  audio_capture_stop waits 100 ms for the task and does not      *)
(* join it; a task blocked in bsp_extra_i2s_read (portMAX_DELAY) or kept   *)
(* from running takes its steps whenever it is scheduled.                  *)
(***************************************************************************)
NewTask ==
  [ pc |-> "check", stopped |-> FALSE, late_read |-> FALSE,
    late_callback |-> FALSE ]

InitCapture ==
  /\ InitRest
  /\ det_threshold = << >>
  /\ agc = AgcInit(AgcDefaultConfig)
  /\ wwd_init_result = "OK"
  /\ main_pc = "done"
  /\ music_init = FALSE
  /\ wwd_state = WwdInit(WwdUninit, TRUE, MaxChunk, DEFAULT_THRESHOLD)

CaptureRest ==
  UNCHANGED << arbVars, sessVars, wwdVars, vad_enabled, extVars,
               unitButTask >>

\* audio_capture_start(callback); ok: xTaskCreate succeeds
AudioCaptureStartCall ==
  /\ capture_caller = "idle"
  /\ ~is_capturing
  /\ Len(capture_tasks) < MaxTasks
  /\ \E callback \in { WWD_FEED, CAPTURE_HANDLER }, ok \in BOOLEAN :
       /\ SetCap(AudioCaptureStart(Cap, callback, ok))
       /\ IF ok
            THEN /\ capture_tasks' = Append(capture_tasks, NewTask)
                 /\ capture_task_handle' = Len(capture_tasks) + 1
          ELSE UNCHANGED << capture_tasks, capture_task_handle >>
  /\ UNCHANGED capture_caller
  /\ CaptureRest

\* audio_capture_start while capturing: "Already capturing"
AudioCaptureStartAgain ==
  /\ capture_caller = "idle"
  /\ is_capturing
  /\ \E callback \in { WWD_FEED, CAPTURE_HANDLER } :
       SetCap(AudioCaptureStart(Cap, callback, TRUE))
  /\ UNCHANGED taskVars
  /\ CaptureRest

\* audio_capture_stop up to its vTaskDelay
AudioCaptureStopBegin ==
  /\ capture_caller = "idle"
  /\ is_capturing
  /\ SetCap(AudioCaptureStop(Cap))
  /\ capture_caller' =
       IF capture_task_handle # 0 THEN "stop_delay" ELSE "idle"
  /\ UNCHANGED << capture_task_handle, capture_tasks >>
  /\ CaptureRest

\* the 100 ms are over: audio_capture_stop forgets the handle and returns
AudioCaptureStopEnd ==
  /\ capture_caller = "stop_delay"
  /\ capture_caller' = "idle"
  /\ capture_task_handle' = 0
  /\ capture_tasks' =
       [ i \in DOMAIN capture_tasks |->
           IF capture_tasks[i].pc = "exited" THEN capture_tasks[i]
           ELSE [ capture_tasks[i] EXCEPT !.stopped = TRUE ] ]
  /\ UNCHANGED << is_capturing, capture_callback >>
  /\ CaptureRest

\* capture_task at while (is_capturing)
TaskCheck(i) ==
  /\ capture_tasks[i].pc = "check"
  /\ capture_tasks' =
       [ capture_tasks EXCEPT ![i].pc =
           IF is_capturing THEN "read" ELSE "exited" ]
  /\ UNCHANGED << is_capturing, capture_callback, capture_task_handle,
                  capture_caller >>
  /\ CaptureRest

\* bsp_extra_i2s_read returns, with a frame or with an error
TaskRead(i) ==
  /\ capture_tasks[i].pc = "read"
  /\ \E got \in BOOLEAN :
       capture_tasks' =
         [ capture_tasks EXCEPT
             ![i].pc = IF got THEN "deliver" ELSE "check",
             ![i].late_read = @ \/ (got /\ capture_tasks[i].stopped) ]
  /\ UNCHANGED << is_capturing, capture_callback, capture_task_handle,
                  capture_caller >>
  /\ CaptureRest

\* if (capture_callback) capture_callback(buffer, bytes_read)
TaskDeliver(i) ==
  /\ capture_tasks[i].pc = "deliver"
  /\ capture_tasks' =
       [ capture_tasks EXCEPT
           ![i].pc = "check",
           ![i].late_callback =
              @ \/ (capture_callback # NULL /\ capture_tasks[i].stopped) ]
  /\ UNCHANGED << is_capturing, capture_callback, capture_task_handle,
                  capture_caller >>
  /\ CaptureRest

TaskStep ==
  \E i \in DOMAIN capture_tasks : TaskCheck(i) \/ TaskRead(i) \/ TaskDeliver(i)

NextCapture ==
  \/ AudioCaptureStartCall
  \/ AudioCaptureStartAgain
  \/ AudioCaptureStopBegin
  \/ AudioCaptureStopEnd
  \/ TaskStep

SpecCapture == InitCapture /\ [][NextCapture]_vars

\* the tasks inside bsp_extra_i2s_read or between the read and the callback
Producing ==
  { i \in DOMAIN capture_tasks : capture_tasks[i].pc \in { "read", "deliver" } }

\* C22: at most one capture task is reading from the hardware or invoking
\* the callback at any instant, and a task whose audio_capture_stop has
\* returned reads no further frame and makes no further callback, also
\* when audio_capture_start is called again right away.
C22_OneProducer ==
  /\ Cardinality(Producing) <= 1
  /\ \A i \in DOMAIN capture_tasks :
       ~capture_tasks[i].late_read /\ ~capture_tasks[i].late_callback

\* wwd.c takes no lock: wwd_start, wwd_stop and wwd_feed_audio read and
\* write wwd_state directly
WwdLockHolder == "none"

\* the detector's streaming state is written
StreamingStateWritten ==
  \/ wwd_state'.running # wwd_state.running
  \/ wwd_state'.chunk_filled # wwd_state.chunk_filled

\* C23: the wake-word threshold and the detector handle are written only
\* in steps of the arbiter thread, and the detector's running flag and
\* window fill count are written only in steps of the arbiter or of the
\* producer, and only while a lock is held.
C23_ArbiterWritesLocked ==
  [][ /\ (wwd_threshold' # wwd_threshold) => ArbiterNext
      /\ (wwd_state'.initialized # wwd_state.initialized) => ArbiterNext
      /\ StreamingStateWritten
           => (ArbiterNext \/ ProducerNext) /\ WwdLockHolder # "none"
    ]_vars

(***************************************************************************)
(* SpecTts: a reply is about to be played, with the music player absent,   *)
(* stopped, playing or paused and the detector initialised or not; the     *)
(* reply's audio arrives, the playback completes, the playlist ends, a     *)
(* test reply is requested, the arbiter handles what is posted and the     *)
(* producer feeds the detector.                                            *)
(***************************************************************************)
InitTts ==
  /\ InitQuiet
  /\ det_threshold = << >>
  /\ agc = AgcInit(AgcDefaultConfig)
  /\ queue = << >>
  /\ last_post = "sent"
  /\ main_pc = "done"
  /\ ha_state = "tts_pending"
  /\ boot = BootDone
  /\ next_timer_id = 1
  /\ timers = [ i \in TimerSlots |-> TimerCleared ]
  /\ cm_state = ConnStart(ConnDefaultConfig)
  /\ \E ok \in BOOLEAN :
       /\ wwd_state = WwdInit(WwdUninit, ok, MaxChunk, DEFAULT_THRESHOLD)
       /\ wwd_init_result = WwdInitResult(WwdUninit, ok, MaxChunk)
  /\ music_init \in BOOLEAN
  /\ music_state \in IF music_init THEN { "STOPPED", "PLAYING", "PAUSED" }
                     ELSE { "STOPPED" }

NextTts ==
  \/ HaTtsAudio
  \/ TtsPlaybackComplete
  \/ MusicTrackEnd
  \/ HandleStopWwd
  \/ HandleResumeWwd
  \/ ProducerWakeFeed
  \/ MqttTestTts

SpecTts == InitTts /\ [][NextTts]_vars

\* the commands cmd waiting in q
CountCmd(q, cmd) == Cardinality({ i \in DOMAIN q : q[i] = cmd })

\* RESUME_WWD commands the step adds to the queue
ResumesPosted ==
  CountCmd(queue', "RESUME_WWD") - CountCmd(queue, "RESUME_WWD")

C25_NotifyBeep ==
  [][ /\ HandleNotifyBeepBegin =>
           /\ tone' = "notify"
           /\ ~wwd_state'.running
           /\ ~is_capturing'
           /\ music_state' # "PLAYING"
           /\ music_paused_for_notification'
                <=> (music_init /\ music_state = "PLAYING")
      /\ HandleNotifyBeepEnd =>
           /\ tone' = "none"
           /\ music_state' = IF music_paused_for_notification
                               THEN MusicResume(music_state)
                             ELSE music_state
           /\ ResumesPosted = IF music_state' = "PLAYING" THEN 0 ELSE 1
    ]_vars

\* the arbiter handles a RESUME_WWD with no music playing or paused and the
\* detector initialised
ResumeHandledClear ==
  /\ HandleResumeWwd
  /\ ~(music_init /\ music_state \in { "PLAYING", "PAUSED" })
  /\ wwd_init_result = "OK"

\* the player reports that it stopped
MusicStoppedEvent == music_state # "STOPPED" /\ music_state' = "STOPPED"

C27_FailedForTheBoot ==
  [][ wwd_init_result # "OK" =>
        /\ wwd_init_result' # "OK"
        /\ ~wwd_state'.initialized
        /\ ~wwd_state'.running
    ]_vars

\* C27: while the result of the latest detector initialisation is a
\* failure the detector is uninitialised and disarmed; no step arms it,
\* only the rebuild of RESTART_WWD and the retry after the SD card is
\* mounted run the initialisation again, RESUME_WWD changes neither
\* detector nor capture and clears the pending detection, and app_main
\* goes on to VAD-only activation.
C27_FailedUntilRebuilt ==
  [][ wwd_init_result # "OK" =>
        /\ ~wwd_state.initialized
        /\ ~wwd_state.running
        /\ ~wwd_state'.running
        /\ wwd_init_result' = "OK" => HandleRestartWwdEnd \/ NetworkSdRetry
        /\ wwd_state'.initialized => wwd_init_result' = "OK"
        /\ HandleResumeWwd =>
             /\ UNCHANGED << wwd_state, capVars >>
             /\ ~wake_detect_pending'
        /\ AppMainCheck => main_pc' = "vad_delay" /\ queue' = queue
        /\ AppMainVadStart => ~WakeWordCapture'
    ]_vars

\* the detector could not be initialised: the RESUME_WWD of startup was
\* handled and left it disarmed, and app_main started a VAD session
C27_Witness ==
  /\ wwd_init_result # "OK"
  /\ ~wwd_state.initialized
  /\ ~wwd_state.running
  /\ main_pc = "done"
  /\ events = 0
  /\ queue = << >>
  /\ last_post = "sent"
  /\ apc = "wait"
  /\ pipeline_active
  /\ RecordingCapture

(***************************************************************************)
(* SpecBoot: app_main from the creation of the command queue to normal     *)
(* operation, the switch entity toggled as often as the broker delivers,   *)
(* and the arbiter task, if there is one, handling what it finds.          *)
(***************************************************************************)
BootStart ==
  [ pc |-> "create_queue", audio_cmd_queue |-> NULL,
    audio_cmd_task_handle |-> NULL, discarded |-> FALSE ]

InitBoot ==
  /\ InitQuiet
  /\ ha_state = "idle"
  /\ music_state = "STOPPED"
  /\ boot = BootStart
  /\ next_timer_id = 1
  /\ timers = [ i \in TimerSlots |-> TimerCleared ]
  /\ cm_state = ConnStart(ConnDefaultConfig)
  /\ det_threshold = << >>
  /\ agc = AgcInit(AgcDefaultConfig)
  /\ queue = << >>
  /\ last_post = "none"
  /\ main_pc = "check"
  /\ music_init = FALSE
  /\ wwd_state = WwdUninit
  /\ wwd_init_result = "FAIL"

BootRest ==
  UNCHANGED << queue, apc, paused_music, wake_detect_pending,
               music_paused_for_notification, music_paused_for_tts,
               wwd_threshold, main_pc, last_post, sessVars, feed_log,
               capVars, extVars, unitButBoot >>

\* audio_cmd_queue = xQueueCreate(8, ...); ok: the queue could be created
AppMainCreateQueue ==
  /\ boot.pc = "create_queue"
  /\ \E ok \in BOOLEAN :
       boot' = [ boot EXCEPT !.pc = "create_task",
                             !.audio_cmd_queue =
                                IF ok THEN HANDLE ELSE NULL ]
  /\ UNCHANGED << wwd_state, wwd_init_result >>
  /\ BootRest

\* xTaskCreate(audio_cmd_task, ...) when there is a queue; ok: the task
\* could be created
AppMainCreateTask ==
  /\ boot.pc = "create_task"
  /\ \E ok \in BOOLEAN :
       boot' = [ boot EXCEPT !.pc = "init_wwd",
                             !.audio_cmd_task_handle =
                                IF boot.audio_cmd_queue # NULL /\ ok
                                  THEN HANDLE ELSE NULL ]
  /\ UNCHANGED << wwd_state, wwd_init_result >>
  /\ BootRest

\* init_wake_word_detection_if_needed and the initialisations after it:
\* app_main goes on to normal operation
AppMainInitWwd ==
  /\ boot.pc = "init_wwd"
  /\ boot' = [ boot EXCEPT !.pc = "running" ]
  /\ \E ok \in BOOLEAN :
       /\ wwd_state' = WwdInit(wwd_state, ok, MaxChunk, wwd_threshold)
       /\ wwd_init_result' = WwdInitResult(wwd_state, ok, MaxChunk)
  /\ BootRest

\* mqtt_wwd_switch_callback once the entities are registered:
\* audio_post_cmd returns at once when there is no queue
BootSwitchPost ==
  /\ boot.pc = "running"
  /\ IF boot.audio_cmd_queue = NULL
       THEN /\ boot' = [ boot EXCEPT !.discarded = TRUE ]
            /\ UNCHANGED << wwd_state, wwd_init_result >>
            /\ BootRest
     ELSE WwdSwitchFlood

\* audio_cmd_task, when it was created
BootArbiter ==
  /\ boot.audio_cmd_task_handle # NULL
  /\ HandleResumeWwd \/ HandleStopWwd

NextBoot ==
  \/ AppMainCreateQueue
  \/ AppMainCreateTask
  \/ AppMainInitWwd
  \/ BootSwitchPost
  \/ BootArbiter

SpecBoot == InitBoot /\ [][NextBoot]_vars

\* C28: when the command queue could not be created, app_main does not go
\* on past the creation of the queue and the arbiter task, and no command
\* is discarded because there is no queue.
C28_MissingQueueFatal ==
  /\ (boot.pc # "create_queue" /\ boot.audio_cmd_queue = NULL)
       => boot.pc \notin { "init_wwd", "running" }
  /\ ~boot.discarded

(***************************************************************************)
(* SpecTimer: timer_manager.c.  Every operation works on the table under   *)
(* timer_mutex, so each is one step.  The label of a timer is kept as a    *)
(* pair: the text given and 0, or "Timer" and the ID when none was given.  *)
(***************************************************************************)
\* the slot overwritten whatever its state
FreeSlotFirst(ts) == 0

\* the first slot in state TIMER_STATE_IDLE, -1 when there is none
FreeSlot(ts) ==
  IF \E i \in TimerSlots : ts[i].state = "IDLE"
    THEN CHOOSE i \in TimerSlots :
           /\ ts[i].state = "IDLE"
           /\ \A j \in TimerSlots : ts[j].state = "IDLE" => i <= j
  ELSE -1

\* next_timer_id++ of a uint8_t, 0 skipped
NextTimerId(id) ==
  IF (id + 1) % (UINT8_MAX + 1) = 0 THEN 1 ELSE (id + 1) % (UINT8_MAX + 1)

\* durations asked for: none, one tick, and one that passes a warning
\* boundary on its first tick
TimerDurations == { 0, 1, WARNING_INTERVAL_SEC + 1 }

TimerLabels == { "NULL", "", "tea" }

\* the timers initialised, any number of IDs given out before
InitTimer ==
  /\ InitQuiet
  /\ ha_state = "idle"
  /\ music_state = "STOPPED"
  /\ boot = BootDone
  /\ queue = << >>
  /\ last_post = "none"
  /\ det_threshold = << >>
  /\ agc = AgcInit(AgcDefaultConfig)
  /\ wwd_init_result = "OK"
  /\ main_pc = "done"
  /\ music_init = FALSE
  /\ wwd_state = WwdInit(WwdUninit, TRUE, MaxChunk, DEFAULT_THRESHOLD)
  /\ next_timer_id \in { 1, UINT8_MAX }
  /\ timers = [ i \in TimerSlots |-> TimerCleared ]
  /\ cm_state = ConnStart(ConnDefaultConfig)

TimerRest ==
  UNCHANGED << arbVars, sessVars, wwdVars, capVars, extVars, unitButTimer >>

\* timer_manager_start(seconds, label, out_id) with seconds drawn from
\* durations and label from labels; given: out_id is not NULL
TimerManagerStart(durations, labels) ==
  /\ tm_log.starts < MaxStarts
  /\ \E seconds \in durations, label \in labels, given \in BOOLEAN :
       LET slot == FreeSlot(timers)
           id == next_timer_id
           ret == IF seconds = 0 THEN "ESP_ERR_INVALID_ARG"
                  ELSE IF slot = -1 THEN "ESP_ERR_NO_MEM"
                  ELSE "ESP_OK"
       IN  /\ timers' =
                IF ret = "ESP_OK"
                  THEN [ timers EXCEPT ![slot] =
                           [ id |-> id, duration_seconds |-> seconds,
                             remaining_seconds |-> seconds,
                             state |-> "RUNNING",
                             label |-> IF label \in { "NULL", "" }
                                         THEN << "Timer", id >>
                                       ELSE << label, 0 >> ] ]
                ELSE timers
           /\ next_timer_id' = IF ret = "ESP_OK" THEN NextTimerId(id)
                               ELSE next_timer_id
           /\ tm_log' = [ tm_log EXCEPT
                            !.op = "start", !.seconds = seconds, !.ret = ret,
                            !.out_id = IF ret = "ESP_OK" /\ given
                                         THEN id ELSE 0,
                            !.starts = @ + 1, !.expired = {},
                            !.warned = {} ]

TimerManagerStartCall ==
  TimerManagerStart(TimerDurations, TimerLabels) /\ TimerRest

\* timer_manager_stop(timer_id); 0 stops every timer
TimerManagerStop ==
  /\ \E timer_id \in { 0, 1, 2, UINT8_MAX } :
       LET hit == { i \in TimerSlots : /\ timers[i].id = timer_id
                                       /\ timers[i].state = "RUNNING" }
           first == CHOOSE i \in hit : \A j \in hit : i <= j
           stopped == IF timer_id = 0 THEN RunningSlots(timers)
                      ELSE IF hit = {} THEN {} ELSE { first }
       IN  /\ timers' = [ i \in TimerSlots |->
                            IF i \in stopped
                              THEN [ timers[i] EXCEPT
                                       !.state = "IDLE",
                                       !.remaining_seconds = 0 ]
                            ELSE timers[i] ]
           /\ tm_log' = [ tm_log EXCEPT
                            !.op = "stop", !.seconds = 0, !.out_id = 0,
                            !.expired = {}, !.warned = {},
                            !.ret = IF timer_id = 0 \/ hit # {}
                                      THEN "ESP_OK"
                                    ELSE "ESP_ERR_NOT_FOUND" ]
  /\ UNCHANGED next_timer_id

TimerManagerStopCall == TimerManagerStop /\ TimerRest

\* one round of timer_tick_task, at most `most' rounds in a run: every
\* running timer counts down, the ones that reach 0 are freed and reported
\* to expired_callback
TimerTickRound(most) ==
  /\ tm_log.ticks < most
  /\ LET run == RunningSlots(timers)
         left(i) == IF timers[i].remaining_seconds > 0
                      THEN timers[i].remaining_seconds - 1 ELSE 0
         out == { i \in run : left(i) = 0 }
     IN  /\ timers' = [ i \in TimerSlots |->
                          IF i \in out
                            THEN [ timers[i] EXCEPT !.state = "IDLE",
                                                    !.remaining_seconds = 0 ]
                          ELSE IF i \in run
                            THEN [ timers[i] EXCEPT
                                     !.remaining_seconds = left(i) ]
                          ELSE timers[i] ]
         /\ tm_log' = [ tm_log EXCEPT
                          !.op = "tick", !.seconds = 0, !.out_id = 0,
                          !.ret = "none", !.ticks = @ + 1,
                          !.expired = { timers[i].id : i \in out },
                          !.warned =
                            { timers[i].id : i \in
                                { j \in run :
                                    /\ timers[j].remaining_seconds > 0
                                    /\ left(j) <= WARNING_THRESHOLD_SEC
                                    /\ left(j) # 0
                                    /\ left(j) % WARNING_INTERVAL_SEC = 0 } } ]
  /\ UNCHANGED next_timer_id

TimerTick == TimerTickRound(MaxTicks) /\ TimerRest

NextTimer == TimerManagerStartCall \/ TimerManagerStopCall \/ TimerTick

SpecTimer == InitTimer /\ [][NextTimer]_vars

\* C29: never more than TIMER_MAX_COUNT timers run.  timer_manager_start
\* with a duration of 0 returns ESP_ERR_INVALID_ARG; with a duration other
\* than 0 and TIMER_MAX_COUNT timers running it returns ESP_ERR_NO_MEM; in
\* both cases no timer changes.  Otherwise it returns ESP_OK, exactly one
\* slot changes, that slot was free and now runs for the duration given,
\* and the ID handed back is the ID stored in it.
C29_TimerStart ==
  /\ [](Cardinality(RunningSlots(timers)) <= TIMER_MAX_COUNT)
  /\ [][ TimerManagerStartCall =>
           LET full == Cardinality(RunningSlots(timers)) = TIMER_MAX_COUNT
               changed == { i \in TimerSlots : timers'[i] # timers[i] }
           IN  /\ tm_log'.seconds = 0 =>
                    /\ tm_log'.ret = "ESP_ERR_INVALID_ARG"
                    /\ timers' = timers
               /\ (tm_log'.seconds # 0 /\ full) =>
                    /\ tm_log'.ret = "ESP_ERR_NO_MEM"
                    /\ timers' = timers
               /\ (tm_log'.seconds # 0 /\ ~full) =>
                    /\ tm_log'.ret = "ESP_OK"
                    /\ Cardinality(changed) = 1
                    /\ \A i \in changed :
                         /\ timers[i].state # "RUNNING"
                         /\ timers'[i].state = "RUNNING"
                         /\ timers'[i].remaining_seconds = tm_log'.seconds
                         /\ tm_log'.out_id \in { 0, timers'[i].id }
                         /\ timers'[i].id # 0
                    /\ Cardinality(RunningSlots(timers')) =
                         Cardinality(RunningSlots(timers)) + 1 ]_vars

\* a start met a full table and was refused
C29_Witness ==
  /\ tm_log.op = "start"
  /\ tm_log.ret = "ESP_ERR_NO_MEM"
  /\ tm_log.seconds # 0
  /\ Cardinality(RunningSlots(timers)) = TIMER_MAX_COUNT

(***************************************************************************)
(* SpecConn: connection_manager.c after app_main has initialised it with   *)
(* the default configuration, registered both connections and started the  *)
(* task.  connection_manager_update_state and _request_reconnect work      *)
(* under cm_state.mutex; connection_manager_task never takes the mutex, so *)
(* the task is followed statement by statement and the calls of the        *)
(* connection modules fall between its statements.  Times are in           *)
(* milliseconds, the multiplier in thousandths.                            *)
(***************************************************************************)
\* (uint32_t)(delay * backoff_multiplier); the product stays far below the
\* widths of float and uint32_t for a delay up to max_retry_delay_ms
BackoffStep(delay, mult) == (delay * mult) \div GAIN_ONE

\* min(initial_retry_delay_ms * backoff_multiplier^k, max_retry_delay_ms),
\* the cap taken at every power so that no product leaves the integers at
\* hand; the same number for a multiplier of 1 or more
RECURSIVE BackoffAfter(_, _)
BackoffAfter(cfg, k) ==
  IF k = 0 THEN Min(cfg.initial_retry_delay_ms, cfg.max_retry_delay_ms)
  ELSE Min((BackoffAfter(cfg, k - 1) * cfg.backoff_multiplier) \div GAIN_ONE,
           cfg.max_retry_delay_ms)

InitConn ==
  /\ InitRest
  /\ det_threshold = << >>
  /\ agc = AgcInit(AgcDefaultConfig)
  /\ wwd_init_result = "OK"
  /\ main_pc = "done"
  /\ music_init = FALSE
  /\ wwd_state = WwdInit(WwdUninit, TRUE, MaxChunk, DEFAULT_THRESHOLD)

ConnRest ==
  UNCHANGED << arbVars, sessVars, wwdVars, capVars, extVars, unitButConn >>

\* connection_manager_update_state(type, state), called by a connection
\* module
ConnUpdateStateCall ==
  /\ cm_log.events < MaxConnEvents
  /\ \E type \in ConnTypes,
        state \in { "CONNECTED", "DISCONNECTED", "ERROR" } :
       LET conn == cm_state.connections[type]
           set == [ conn EXCEPT !.state = state ]
           new == IF conn.state = state THEN conn
                  ELSE IF state = "CONNECTED"
                    THEN [ set EXCEPT
                             !.retry_count = 0,
                             !.next_retry_delay_ms =
                                cm_state.config.initial_retry_delay_ms,
                             !.reconnect_pending = FALSE ]
                  ELSE IF conn.registered /\ conn.reconnect_fn # NULL
                    THEN [ set EXCEPT !.reconnect_pending = TRUE ]
                  ELSE set
       IN  /\ cm_state' = [ cm_state EXCEPT !.connections[type] = new ]
           /\ cm_log' = [ cm_log EXCEPT
                            !.op = "update_state", !.type = type,
                            !.state = state, !.events = @ + 1,
                            !.fails[type] =
                               IF state = "CONNECTED" THEN 0 ELSE @ ]
  /\ UNCHANGED << cm_task, cm_now >>
  /\ ConnRest

\* connection_manager_request_reconnect(type)
ConnRequestReconnectCall ==
  /\ cm_log.events < MaxConnEvents
  /\ \E type \in ConnTypes :
       LET conn == cm_state.connections[type]
       IN  /\ cm_state' =
                IF ~conn.registered \/ conn.reconnect_fn = NULL THEN cm_state
                ELSE [ cm_state EXCEPT !.connections[type] =
                         [ conn EXCEPT
                             !.reconnect_pending = TRUE,
                             !.next_retry_delay_ms =
                                cm_state.config.initial_retry_delay_ms,
                             !.last_attempt_time = 0 ] ]
           /\ cm_log' = [ cm_log EXCEPT
                            !.op = "request_reconnect", !.type = type,
                            !.state = "none", !.events = @ + 1 ]
  /\ UNCHANGED << cm_task, cm_now >>
  /\ ConnRest

\* the task goes on to the next connection, or to its sleep after the last
TaskOn(i) ==
  IF i + 1 < CONN_TYPE_MAX THEN [ cm_task EXCEPT !.pc = "scan", !.i = i + 1 ]
  ELSE [ cm_task EXCEPT !.pc = "sleep" ]

\* one statement of the task on the connection it is at
ConnWrite(field, value, pc) ==
  /\ cm_state' = [ cm_state EXCEPT !.connections[cm_task.i][field] = value ]
  /\ cm_task' = IF pc = "on" THEN TaskOn(cm_task.i)
                ELSE [ cm_task EXCEPT !.pc = pc ]
  /\ UNCHANGED << cm_log, cm_now >>

\* the head of the loop body: nothing to do for this connection, too early,
\* retries used up, or the attempt begins
ConnTaskScan ==
  /\ cm_task.pc = "scan"
  /\ LET i == cm_task.i
         conn == cm_state.connections[i]
         elapsed == cm_task.now - conn.last_attempt_time
         max == cm_state.config.max_retry_count
     IN  IF ~conn.registered \/ ~conn.reconnect_pending
              \/ elapsed < conn.next_retry_delay_ms
           THEN /\ cm_task' = TaskOn(i)
                /\ UNCHANGED cm_state
         ELSE IF max > 0 /\ conn.retry_count >= max
           THEN /\ cm_state' = [ cm_state EXCEPT !.connections[i] =
                                   [ conn EXCEPT !.reconnect_pending = FALSE,
                                                 !.state = "ERROR" ] ]
                /\ cm_task' = TaskOn(i)
         ELSE /\ cm_state' = [ cm_state EXCEPT !.connections[i] =
                                 [ conn EXCEPT
                                     !.state = "CONNECTING",
                                     !.last_attempt_time = cm_task.now ] ]
              /\ cm_task' = [ cm_task EXCEPT !.pc = "reconnect" ]
  /\ UNCHANGED << cm_log, cm_now >>
  /\ ConnRest

\* conn->reconnect_fn() returns
ConnTaskReconnect ==
  /\ cm_task.pc = "reconnect"
  /\ \E ok \in BOOLEAN :
       /\ cm_task' = [ cm_task EXCEPT
                         !.pc = IF ok THEN "ok_state" ELSE "fail_state" ]
       /\ cm_log' = [ cm_log EXCEPT
                        !.op = "reconnect", !.type = cm_task.i,
                        !.state = IF ok THEN "ESP_OK" ELSE "ESP_FAIL",
                        !.fails[cm_task.i] = IF ok THEN 0 ELSE @ + 1 ]
  /\ UNCHANGED << cm_state, cm_now >>
  /\ ConnRest

\* the four assignments after a successful reconnection
ConnTaskSucceeded ==
  /\ \/ /\ cm_task.pc = "ok_state"
        /\ ConnWrite("state", "CONNECTED", "ok_pending")
     \/ /\ cm_task.pc = "ok_pending"
        /\ ConnWrite("reconnect_pending", FALSE, "ok_count")
     \/ /\ cm_task.pc = "ok_count"
        /\ ConnWrite("retry_count", 0, "ok_delay")
     \/ /\ cm_task.pc = "ok_delay"
        /\ ConnWrite("next_retry_delay_ms",
                     cm_state.config.initial_retry_delay_ms, "on")
  /\ ConnRest

\* the statements after a failed reconnection
ConnTaskFailed ==
  /\ LET conn == cm_state.connections[cm_task.i]
     IN  \/ /\ cm_task.pc = "fail_state"
            /\ ConnWrite("state", "DISCONNECTED", "fail_count")
         \/ /\ cm_task.pc = "fail_count"
            /\ ConnWrite("retry_count", conn.retry_count + 1, "fail_delay")
         \/ /\ cm_task.pc = "fail_delay"
            /\ ConnWrite("next_retry_delay_ms",
                         BackoffStep(conn.next_retry_delay_ms,
                                     cm_state.config.backoff_multiplier),
                         "fail_cap")
         \/ /\ cm_task.pc = "fail_cap"
            /\ ConnWrite("next_retry_delay_ms",
                         IF conn.next_retry_delay_ms >
                              cm_state.config.max_retry_delay_ms
                           THEN cm_state.config.max_retry_delay_ms
                         ELSE conn.next_retry_delay_ms, "on")
  /\ ConnRest

\* vTaskDelay(pdMS_TO_TICKS(5000)) and the head of the next round
ConnTaskSleep ==
  /\ cm_task.pc = "sleep"
  /\ cm_log.rounds < MaxRounds
  /\ cm_now' = cm_now + TASK_PERIOD_MS
  /\ cm_task' = [ pc |-> "scan", i |-> 0, now |-> cm_now' ]
  /\ cm_log' = [ cm_log EXCEPT !.rounds = @ + 1 ]
  /\ UNCHANGED cm_state
  /\ ConnRest

NextConn ==
  \/ ConnUpdateStateCall
  \/ ConnRequestReconnectCall
  \/ ConnTaskScan
  \/ ConnTaskReconnect
  \/ ConnTaskSucceeded
  \/ ConnTaskFailed
  \/ ConnTaskSleep

SpecConn == InitConn /\ [][NextConn]_vars

\* the task is between two attempts on connection t
ConnAtRest(t) ==
  ~(cm_task.i = t /\ cm_task.pc \notin { "scan", "reconnect", "sleep" })

\* C30: between two attempts the retry delay of a connection is
\* min(initial_retry_delay_ms * backoff_multiplier^k, max_retry_delay_ms),
\* k the number of failed attempts since the last successful reconnection
\* or report of CONNECTED; and k = 0 goes with a retry count of 0.
C30_Backoff ==
  \A t \in ConnTypes :
    ConnAtRest(t) =>
      LET conn == cm_state.connections[t]
      IN  /\ conn.next_retry_delay_ms =
               BackoffAfter(cm_state.config, cm_log.fails[t])
          /\ cm_log.fails[t] = 0 => conn.retry_count = 0

(***************************************************************************)
(* SpecRestart: a threshold delivered by a command source, and the rebuild *)
(* of the detector by RESTART_WWD with the model thresholds followed, up   *)
(* to the first rebuild.                                                   *)
(***************************************************************************)
\* values a source can deliver, in thousandths: atof takes any number
ThresholdDelivered ==
  { -100, 0, 30, DEFAULT_THRESHOLD, THRESHOLD_MAX + 1, GAIN_ONE, 1500 }

\* thresholds a model may hold after create(); they are the model's own
ModelDefaults == { DEFAULT_THRESHOLD, THRESHOLD_MAX }

\* clamp_float(v, lo, hi)
ClampFloat(v, lo, hi) == IF v < lo THEN lo ELSE IF v > hi THEN hi ELSE v

\* wwd_init, step 4: the detection mode of the model created
DetMode(t) == IF t >= THRESHOLD_MAX THEN "DET_MODE_95" ELSE "DET_MODE_90"

\* wwd_init, the threshold part: dt0 the thresholds the model came with
WwdInitThresholds(dt0, t, out) ==
  IF t > 0 /\ t < GAIN_ONE
    THEN SetThresholdLoop([ dt |-> dt0, writes |-> << >>, actual |-> << >>,
                            all_success |-> TRUE ],
                          ClampThreshold(t), 1, out).dt
  ELSE dt0

InitRestart ==
  /\ InitRest
  /\ wwd_init_result = "OK"
  /\ main_pc = "done"
  /\ music_init = FALSE
  /\ agc = AgcInit(AgcDefaultConfig)
  /\ \E n \in 1 .. MaxWords, armed \in BOOLEAN :
       /\ wwd_state =
            LET w == WwdInit(WwdUninit, TRUE, MaxChunk, DEFAULT_THRESHOLD)
            IN  IF armed THEN WwdStart(w) ELSE w
       /\ det_threshold = [ i \in 1 .. n |-> DEFAULT_THRESHOLD ]

\* what a delivery leaves alone
DeliveryRest ==
  UNCHANGED << apc, paused_music, wake_detect_pending,
               music_paused_for_notification, music_paused_for_tts,
               wwd_init_result, main_pc, sessVars, wwdVars, unitVars,
               capVars, extVars >>

\* mqtt_wwd_threshold_callback with any payload
MqttWwdThresholdAny ==
  /\ Backlog
  /\ ~thr_log.valid
  /\ \E t \in ThresholdDelivered : wwd_threshold' = t
  /\ queue' = AudioPostCmd(queue, "RESTART_WWD")
  /\ last_post' = PostOutcome(queue)
  /\ DeliveryRest

\* va_control_set_wwd_threshold with any value
VaControlSetWwdThreshold ==
  /\ Backlog
  /\ ~thr_log.valid
  /\ \E t \in ThresholdDelivered : wwd_threshold' = ClampFloat(t, 50, 990)
  /\ queue' = AudioPostCmd(queue, "RESTART_WWD")
  /\ last_post' = PostOutcome(queue)
  /\ DeliveryRest

\* case AUDIO_CMD_RESTART_WWD from wwd_deinit on, with the model: ok: the
\* new detector could be created; dflt: the thresholds it came with; out:
\* what the model does with each write
HandleRestartWwdEndModel ==
  /\ apc \in { "restart_armed", "restart_idle" }
  /\ apc' = "wait"
  /\ \E ok \in BOOLEAN, dflt \in ModelDefaults,
        out \in [ 1 .. Len(det_threshold) -> BackendOutcomes ] :
       LET was_running == apc = "restart_armed"
           w1  == WwdDeinit(wwd_state)
           res == WwdInitResult(w1, ok, MaxChunk)
           repost == RestartRepost(was_running, res)
           dt0 == [ i \in 1 .. Len(det_threshold) |-> dflt ]
       IN  /\ wwd_state' = WwdInit(w1, ok, MaxChunk, wwd_threshold)
           /\ wwd_init_result' = res
           /\ det_threshold' =
                IF res = "OK" THEN WwdInitThresholds(dt0, wwd_threshold, out)
                ELSE det_threshold
           /\ thr_log' = [ valid |-> TRUE, t |-> wwd_threshold, ret |-> res,
                           writes |-> << >>, actual |-> << >>,
                           outcome |-> out, before |-> dflt,
                           det_mode |-> IF res = "OK" THEN DetMode(wwd_threshold)
                                        ELSE "none" ]
           /\ queue' = IF repost THEN AudioPostCmd(queue, "RESUME_WWD")
                       ELSE queue
           /\ last_post' = IF repost THEN PostOutcome(queue) ELSE last_post
  /\ UNCHANGED << wwd_threshold, paused_music, wake_detect_pending,
                  music_paused_for_notification, music_paused_for_tts,
                  main_pc, sessVars, feed_log, unitButThr, capVars, extVars >>

NextRestart ==
  \/ MqttWwdThresholdAny
  \/ VaControlSetWwdThreshold
  \/ HandleRestartWwdBegin
  \/ HandleRestartWwdEndModel
  \/ HandleResumeWwd

SpecRestart == InitRestart /\ [][NextRestart]_vars

\* C31: after a RESTART_WWD that rebuilt the detector, every keyword of the
\* model holds the delivered threshold clamped to [0.4, 0.95], whatever
\* the value delivered was, and the detection mode is the one of the
\* clamped value.
C31_RestartAppliesThreshold ==
  (thr_log.valid /\ thr_log.ret = "OK") =>
    /\ \A i \in 1 .. Len(det_threshold) :
         det_threshold[i] = InRange(thr_log.t)
    /\ thr_log.det_mode = DetMode(InRange(thr_log.t))

(***************************************************************************)
(* SpecWake: the detector armed by RESUME_WWD and fed, its detections      *)
(* posted to a queue that the switch entity fills as fast as the broker    *)
(* delivers, and the arbiter handling WAKE_DETECTED, RESUME_WWD and        *)
(* STOP_WWD.                                                               *)
(***************************************************************************)
InitWake == InitQueue

NextWake ==
  \/ WwdSwitchFlood
  \/ ProducerWakeFeed
  \/ HandleWakeBegin
  \/ HandleWakeEnd
  \/ HandleResumeWwd
  \/ HandleStopWwd

SpecWake == InitWake /\ [][NextWake]_vars

\* WAKE_DETECTED waits in the queue or the arbiter is inside its case
WakeQueuedOrHandled ==
  \/ \E k \in 1 .. Len(queue) : queue[k] = "WAKE_DETECTED"
  \/ apc = "wake_beep"

\* C32: wake_detect_pending is set only while a WAKE_DETECTED command is in
\* the queue or being handled; a detection whose post met the full queue
\* leaves no flag behind.
C32_PendingOnlyWhileQueued ==
  wake_detect_pending => WakeQueuedOrHandled

\* the step of the arbiter in which test_audio_streaming opens a session
SessionOpened ==
  /\ apc = "wake_beep"
  /\ apc' = "wait"
  /\ TestAudioStreaming("ok")

\* C33: whenever the arbiter opens a session, the session before it is
\* closed: pipeline_active is false and pipeline_handler is NULL, whatever
\* commands stopped a recording capture in between.
C33_NoSessionOverLiveOne ==
  [][ SessionOpened => (~pipeline_active /\ pipeline_handler = NULL) ]_vars

(***************************************************************************)
(* SpecSession: the session handle under the three threads that touch it.  *)
(* The capture task runs audio_capture_handler and vad_event_handler, the  *)
(* backend task runs pipeline_error_handler, the arbiter runs              *)
(* test_audio_streaming; none of them takes a lock, so each read and write *)
(* of pipeline_handler and pipeline_active is a step.  Handles are         *)
(* numbered as they are allocated, 0 is NULL.                              *)
(***************************************************************************)
\* free(h) on the heap
HeapFree(s, h) ==
  IF h = 0 THEN s
  ELSE [ s EXCEPT !.heap[h] = "freed", !.frees[h] = @ + 1 ]

\* pipeline_error_handler at position pc of the thread that runs it; the
\* result is the state and the position after the statement ("post": the
\* command is posted next)
ErrorHandlerStep(s, pc) ==
  CASE pc = "err_active" ->
         [ s |-> [ s EXCEPT !.pipeline_active = FALSE ], pc |-> "err_check" ]
    [] pc = "err_check" ->
         [ s |-> s,
           pc |-> IF s.pipeline_handler # 0 THEN "err_free" ELSE "post" ]
    [] pc = "err_free" ->
         [ s |-> HeapFree(s, s.pipeline_handler), pc |-> "err_null" ]
    [] pc = "err_null" ->
         [ s |-> [ s EXCEPT !.pipeline_handler = 0 ], pc |-> "post" ]

ErrorPcs == { "err_active", "err_check", "err_free", "err_null" }

InitSession == InitQueue

SessionRest ==
  UNCHANGED << apc, paused_music, wake_detect_pending,
               music_paused_for_notification, music_paused_for_tts,
               wwd_init_result, wwd_threshold, main_pc, sessVars, wwdVars,
               capVars, extVars, unitButSession >>

\* test_audio_streaming on the arbiter, every call succeeding: a handle is
\* allocated and the capture started
ArbiterOpensSession ==
  /\ ~ss.is_capturing
  /\ ss.cap = "idle"
  /\ \E h \in SessionIds :
       /\ ss.heap[h] = "unused"
       /\ \A g \in SessionIds : ss.heap[g] = "unused" => h <= g
       /\ ss' = [ ss EXCEPT !.pipeline_handler = h, !.heap[h] = "live",
                            !.pipeline_active = TRUE,
                            !.is_capturing = TRUE ]
  /\ UNCHANGED << queue, last_post >>
  /\ SessionRest

\* audio_capture_handler: the test at its head
CaptureFrameCheck ==
  /\ ss.is_capturing
  /\ ss.cap = "idle"
  /\ ss' = [ ss EXCEPT !.cap = IF ~ss.pipeline_active
                                    \/ ss.pipeline_handler = 0
                                 THEN "idle" ELSE "stream" ]
  /\ UNCHANGED << queue, last_post >>
  /\ SessionRest

\* audio_capture_handler: ha_client_stream_audio(..., pipeline_handler) and
\* what follows its result
CaptureFrameStream ==
  /\ ss.cap = "stream"
  /\ \E ret \in { "ESP_OK", "ESP_ERR_INVALID_STATE", "ESP_FAIL" } :
       ss' = [ ss EXCEPT
                 !.streamed_freed =
                    @ \/ (ss.pipeline_handler # 0
                          /\ ss.heap[ss.pipeline_handler] = "freed"),
                 !.cap = IF ret = "ESP_FAIL" THEN "err_active" ELSE "idle" ]
  /\ UNCHANGED << queue, last_post >>
  /\ SessionRest

\* vad_event_handler, VAD_EVENT_SPEECH_END, statement by statement
CaptureSpeechEnd ==
  /\ \/ /\ ss.cap = "idle"
        /\ ss.is_capturing
        /\ ss' = [ ss EXCEPT !.pipeline_active = FALSE,
                             !.is_capturing = FALSE, !.cap = "end_check" ]
     \/ /\ ss.cap = "end_check"
        /\ ss' = [ ss EXCEPT !.cap = IF ss.pipeline_handler # 0
                                       THEN "end_free" ELSE "idle" ]
     \/ /\ ss.cap = "end_free"
        /\ ss' = [ HeapFree(ss, ss.pipeline_handler) EXCEPT
                     !.cap = "end_null" ]
     \/ /\ ss.cap = "end_null"
        /\ ss' = [ ss EXCEPT !.pipeline_handler = 0, !.cap = "idle" ]
  /\ UNCHANGED << queue, last_post >>
  /\ SessionRest

\* pipeline_error_handler on the capture task, after a failed stream call
CaptureErrorHandler ==
  /\ ss.cap \in ErrorPcs
  /\ LET r == ErrorHandlerStep(ss, ss.cap)
     IN  IF r.pc = "post"
           THEN /\ ss' = [ r.s EXCEPT !.cap = "idle" ]
                /\ queue' = AudioPostCmd(queue, "PIPELINE_ERROR_RESUME")
                /\ last_post' = PostOutcome(queue)
         ELSE /\ ss' = [ r.s EXCEPT !.cap = r.pc ]
              /\ UNCHANGED << queue, last_post >>
  /\ SessionRest

\* the backend reports a pipeline error: pipeline_error_handler on its task
BackendErrorBegins ==
  /\ ss.be = "idle"
  /\ ss.errors < MaxErrors
  /\ \E h \in SessionIds : ss.heap[h] # "unused"
  /\ ss' = [ ss EXCEPT !.be = "err_active", !.errors = @ + 1 ]
  /\ UNCHANGED << queue, last_post >>
  /\ SessionRest

BackendErrorHandler ==
  /\ ss.be \in ErrorPcs
  /\ LET r == ErrorHandlerStep(ss, ss.be)
     IN  IF r.pc = "post"
           THEN /\ ss' = [ r.s EXCEPT !.be = "idle" ]
                /\ queue' = AudioPostCmd(queue, "PIPELINE_ERROR_RESUME")
                /\ last_post' = PostOutcome(queue)
         ELSE /\ ss' = [ r.s EXCEPT !.be = r.pc ]
              /\ UNCHANGED << queue, last_post >>
  /\ SessionRest

NextSession ==
  \/ ArbiterOpensSession
  \/ CaptureFrameCheck
  \/ CaptureFrameStream
  \/ CaptureSpeechEnd
  \/ CaptureErrorHandler
  \/ BackendErrorBegins
  \/ BackendErrorHandler

SpecSession == InitSession /\ [][NextSession]_vars

\* C34: no session handle is released twice, and none is passed to the
\* stream call after it was released, whatever the interleaving of the
\* capture task, the backend error callback and the arbiter.
C34_ReleasedOnce ==
  /\ \A h \in SessionIds : ss.frees[h] <= 1
  /\ ~ss.streamed_freed

(***************************************************************************)
(* The producer inside wwd_feed_audio (wwd.c 264-313) against the arbiter  *)
(* that destroys or re-arms the detector (main.c 127-199).  wwd.c takes no *)
(* lock; the arbiter waits a bounded time for the producer                 *)
(* (audio_capture_stop_wait(1000), result cast to void) and goes on        *)
(* whether or not the producer has left the call: a timed-out wait is the  *)
(* arbiter stepping while feed_pc = "in".                                  *)
(***************************************************************************)
InitFeed == InitQueue

FeedRest ==
  UNCHANGED << apc, paused_music, music_paused_for_notification,
               music_paused_for_tts, wwd_init_result, wwd_threshold,
               main_pc, sessVars, feed_log, capVars, extVars, unitButFeed >>

\* wwd_feed_audio up to its loop (wwd.c 264-283): the capture task calls it
\* while capturing for the detector; the checks of running and of the window
\* pass and the call is inside.
FeedEnter ==
  /\ feed_pc = "out"
  /\ is_capturing
  /\ capture_callback = WWD_FEED
  /\ WwdFeedAudio(wwd_state, MaxChunk, 0).ret = "ESP_OK"
  /\ feed_pc' = "in"
  /\ UNCHANGED << queue, last_post, wake_detect_pending, wwd_state >>
  /\ FeedRest

\* the loop of wwd_feed_audio and its return (wwd.c 284-313): copy into the
\* window at chunk_filled, detect, callback (main.c 1107-1131), running
\* cleared on a detection; the loop ends at once when running is false.
FeedLeave ==
  /\ feed_pc = "in"
  /\ feed_pc' = "out"
  /\ \E det \in { 0, 1 } :
       LET r    == WwdFeedAudio(wwd_state, MaxChunk, det)
           fire == r.callbacks > 0 /\ ~wake_detect_pending
       IN  /\ wwd_state' = WwdAfterFeed(wwd_state, r)
           /\ wake_detect_pending' = (wake_detect_pending \/ r.callbacks > 0)
           /\ queue' = IF fire THEN AudioPostCmd(queue, "WAKE_DETECTED")
                       ELSE queue
           /\ last_post' = IF fire THEN PostOutcome(queue) ELSE last_post
  /\ FeedRest

FeedSwitch == Backlog /\ WwdSwitchFlood

NextFeed ==
  \/ FeedSwitch
  \/ MqttWwdThreshold
  \/ FeedEnter
  \/ FeedLeave
  \/ HandleWakeBegin
  \/ HandleWakeEnd
  \/ HandleResumeWwd
  \/ HandleStopWwd
  \/ HandleRestartWwdBegin
  \/ HandleRestartWwdEnd

SpecFeed == InitFeed /\ [][NextFeed]_vars

\* RESTART_WWD's wwd_deinit: the window is freed (wwd.c 369-398).
DetectorDestroyed ==
  /\ apc \in { "restart_armed", "restart_idle" }
  /\ apc' = "wait"

\* RESUME_WWD's wwd_start: chunk_filled is reset (wwd.c 233-248).
DetectorRearmed ==
  /\ Dequeue("RESUME_WWD")
  /\ Len(queue') < Len(queue)
  /\ wwd_state'.running

\* C35: whenever the arbiter destroys (RESTART_WWD) or re-arms (RESUME_WWD)
\* the detector, no producer is executing inside wwd_feed_audio, the bounded
\* wait for the producer having timed out or not: the window is never freed
\* or reset while a feed call is using it.
C35_NoFeedDuringRebuild ==
  [][ (DetectorDestroyed \/ DetectorRearmed) => feed_pc = "out" ]_vars

(***************************************************************************)
(* SpecAgcCalls: every call that writes the instance, in any order, on an  *)
(* instance initialised with min_gain <= 1 <= max_gain.                    *)
(***************************************************************************)
\* agc_set_target_level: the target is replaced, nothing else
AgcSetTargetLevel(a, target_level) ==
  [ a EXCEPT !.config.target_level = target_level ]

\* agc_reset: the gain back to 1.0, the levels and the clipping count to 0;
\* the configuration and frames_processed stay
AgcReset(a) ==
  [ a EXCEPT !.current_gain = GAIN_ONE, !.input_level = 0,
             !.output_level = 0, !.clipping_count = 0 ]

\* the target levels asked for
TargetLevels == { 1000, 4000 }

AgcSetTargetLevelCall ==
  /\ \E target_level \in TargetLevels :
       agc' = AgcSetTargetLevel(agc, target_level)
  /\ UNCHANGED << arbVars, sessVars, wwdVars, capVars, extVars,
                  unitButAgc, agc_log >>

AgcResetCall ==
  /\ agc' = AgcReset(agc)
  /\ UNCHANGED << arbVars, sessVars, wwdVars, capVars, extVars,
                  unitButAgc, agc_log >>

NextAgcCalls ==
  \/ AgcChangeInput
  \/ AgcProcessShort
  \/ AgcSetGainLimitsCall
  \/ AgcSetTargetLevelCall
  \/ AgcResetCall

SpecAgcCalls == InitAgc /\ [][NextAgcCalls]_vars

\* C36: after agc_init with min_gain <= 1 <= max_gain, current_gain is
\* within [min_gain, max_gain] after any sequence of agc_process,
\* agc_set_target_level, agc_set_gain_limits and agc_reset calls.
C36_GainWithinLimits ==
  /\ agc.config.min_gain <= agc.current_gain
  /\ agc.current_gain <= agc.config.max_gain

(***************************************************************************)
(* SpecTimerWrap: the ID counter about to wrap while an early timer still  *)
(* runs.  The first state is the one after timer_manager_start of a long   *)
(* timer (ID 1, slot 0) followed by UINT8_MAX - 2 pairs of                 *)
(* timer_manager_start and timer_manager_stop of other timers (IDs 2 to    *)
(* UINT8_MAX - 1, slot 1), all within the first second: next_timer_id is   *)
(* UINT8_MAX and only the long timer runs.                                 *)
(***************************************************************************)
LongTimer ==
  [ id |-> 1, duration_seconds |-> 2 * WARNING_THRESHOLD_SEC,
    remaining_seconds |-> 2 * WARNING_THRESHOLD_SEC, state |-> "RUNNING",
    label |-> << "Timer", 1 >> ]

\* the slot of the last of the stopped timers: IDLE, its other fields kept
\* (timer_manager_stop, timer_manager.c 126-152)
LastStopped ==
  [ id |-> UINT8_MAX - 1, duration_seconds |-> 1, remaining_seconds |-> 0,
    state |-> "IDLE", label |-> << "Timer", UINT8_MAX - 1 >> ]

InitTimerWrap ==
  /\ InitQuiet
  /\ ha_state = "idle"
  /\ music_state = "STOPPED"
  /\ boot = BootDone
  /\ queue = << >>
  /\ last_post = "none"
  /\ det_threshold = << >>
  /\ agc = AgcInit(AgcDefaultConfig)
  /\ wwd_init_result = "OK"
  /\ main_pc = "done"
  /\ music_init = FALSE
  /\ wwd_state = WwdInit(WwdUninit, TRUE, MaxChunk, DEFAULT_THRESHOLD)
  /\ next_timer_id = UINT8_MAX
  /\ cm_state = ConnStart(ConnDefaultConfig)
  /\ timers = [ i \in TimerSlots |->
                  IF i = 0 THEN LongTimer
                  ELSE IF i = 1 THEN LastStopped ELSE TimerCleared ]

SpecTimerWrap == InitTimerWrap /\ [][NextTimer]_vars

\* C37: the IDs of the running timers are non-zero and pairwise distinct,
\* also after the 8-bit ID counter has wrapped while earlier timers still
\* run.
C37_RunningIdsDistinct ==
  \A i \in RunningSlots(timers) :
    /\ timers[i].id # 0
    /\ \A j \in RunningSlots(timers) : i # j => timers[i].id # timers[j].id

(***************************************************************************)
(* SpecTimerRun: timer_manager_start and timer_manager_stop against        *)
(* timer_tick_task, which counts down under the mutex, releases it and     *)
(* then calls expired_callback for the IDs it collected                    *)
(* (timer_manager.c 288-342).  A call of start or stop can come between    *)
(* the countdown and the callbacks.  expired_callback is registered.       *)
(***************************************************************************)
RunDurations == { 1, 2 }

\* the timers initialised, no ID given out yet
InitTimerRun == InitTimer /\ next_timer_id = 1

RunRest ==
  UNCHANGED << arbVars, sessVars, wwdVars, capVars, extVars,
               unitButTimerRun >>

\* expired_ids with nothing collected
ExpiredNone(before, after, i) == << >>

\* expired_ids: the IDs of the timers of slots i and up that the countdown
\* brought to 0, in slot order
RECURSIVE ExpiredIds(_, _, _)
ExpiredIds(before, after, i) ==
  IF i >= TIMER_MAX_COUNT THEN << >>
  ELSE IF before[i].state = "RUNNING" /\ after[i].state = "IDLE"
    THEN << before[i].id >> \o ExpiredIds(before, after, i + 1)
  ELSE ExpiredIds(before, after, i + 1)

TimerRunStart ==
  /\ tm_log.starts < MaxRunStarts
  /\ TimerManagerStart(RunDurations, { "NULL" })
  /\ tk' = IF tm_log'.ret = "ESP_OK"
             THEN [ tk EXCEPT !.hist[next_timer_id] =
                      [ NotStarted EXCEPT !.born = tm_log.ticks,
                                          !.s = tm_log'.seconds ] ]
           ELSE tk
  /\ RunRest

TimerRunStop ==
  /\ TimerManagerStop
  /\ tk' = [ tk EXCEPT !.hist =
               [ id \in RunIds |->
                   IF \E i \in TimerSlots : /\ timers[i].id = id
                                            /\ timers[i].state = "RUNNING"
                                            /\ timers'[i].state = "IDLE"
                     THEN [ tk.hist[id] EXCEPT !.stopped = TRUE ]
                   ELSE tk.hist[id] ] ]
  /\ RunRest

\* the countdown of one round, under the mutex
TimerTickCount ==
  /\ tk.pending = << >>
  /\ TimerTickRound(MaxRunTicks)
  /\ LET ids == ExpiredIds(timers, timers', 0) IN
     tk' = [ pending |-> ids,
             hist |-> [ id \in RunIds |->
                          IF \E k \in 1 .. Len(ids) : ids[k] = id
                            THEN [ tk.hist[id] EXCEPT !.free =
                                     \A i \in TimerSlots :
                                       timers[i].id = id
                                         => timers'[i].state = "IDLE" ]
                          ELSE tk.hist[id] ] ]
  /\ RunRest

\* expired_callback(expired_ids[i]), the mutex released
TimerTickCallback ==
  /\ tk.pending # << >>
  /\ LET id == Head(tk.pending) IN
     tk' = [ pending |-> Tail(tk.pending),
             hist |-> [ tk.hist EXCEPT ![id].fired = @ + 1,
                                       ![id].fired_at = tm_log.ticks ] ]
  /\ UNCHANGED timerVars
  /\ RunRest

NextTimerRun ==
  \/ TimerRunStart
  \/ TimerRunStop
  \/ TimerTickCount
  \/ TimerTickCallback

SpecTimerRun == InitTimerRun /\ [][NextTimerRun]_vars

\* expired_callback is still to be called with this ID in the current round
CallbackPending(id) == \E k \in 1 .. Len(tk.pending) : tk.pending[k] = id

TimeHorizon == MAX_RETRY_DELAY_MS + TASK_PERIOD_MS

ConnGiveUpConfig ==
  [ ConnDefaultConfig EXCEPT !.max_retry_count = MaxRetryCount ]

InitConnLive ==
  /\ InitQuiet
  /\ boot = BootDone
  /\ next_timer_id = 1
  /\ timers = [ i \in TimerSlots |-> TimerCleared ]
  /\ ha_state = "idle"
  /\ music_state = "STOPPED"
  /\ queue = << >>
  /\ last_post = "none"
  /\ det_threshold = << >>
  /\ agc = AgcInit(AgcDefaultConfig)
  /\ wwd_init_result = "OK"
  /\ main_pc = "done"
  /\ music_init = FALSE
  /\ wwd_state = WwdInit(WwdUninit, TRUE, MaxChunk, DEFAULT_THRESHOLD)
  /\ cm_state = ConnStart(ConnGiveUpConfig)

\* vTaskDelay(pdMS_TO_TICKS(5000)) and the head of the next round, any
\* number of rounds
ConnTaskSleepOn ==
  /\ cm_task.pc = "sleep"
  /\ IF cm_now + TASK_PERIOD_MS <= TimeHorizon
       THEN /\ cm_now' = cm_now + TASK_PERIOD_MS
            /\ UNCHANGED cm_state
     ELSE /\ cm_now' = cm_now
          /\ cm_state' =
               [ cm_state EXCEPT !.connections =
                   [ t \in ConnTypes |->
                       [ cm_state.connections[t] EXCEPT
                           !.last_attempt_time =
                              IF @ > TASK_PERIOD_MS
                                THEN @ - TASK_PERIOD_MS ELSE 0 ] ] ]
  /\ cm_task' = [ pc |-> "scan", i |-> 0, now |-> cm_now' ]
  /\ UNCHANGED cm_log
  /\ ConnRest

\* a step of connection_manager_task
ConnTaskStep ==
  \/ ConnTaskScan
  \/ ConnTaskReconnect
  \/ ConnTaskSucceeded
  \/ ConnTaskFailed
  \/ ConnTaskSleepOn

NextConnLive ==
  \/ ConnUpdateStateCall
  \/ ConnRequestReconnectCall
  \/ ConnTaskStep

SpecConnLive ==
  InitConnLive /\ [][NextConnLive]_vars /\ WF_vars(ConnTaskStep)

\* C39: whenever connection_manager_request_reconnect has returned ESP_OK
\* for a connection, the manager task eventually calls that connection's
\* reconnect function, also when the connection had given up after
\* max_retry_count failed attempts.
C39_RequestLeadsToReconnect ==
  \A t \in ConnTypes :
    (cm_log.op = "request_reconnect" /\ cm_log.type = t)
      ~> (cm_log.op = "reconnect" /\ cm_log.type = t)

(***************************************************************************)
(* SpecRearm: the detector initialised, no music player, no STOP_WWD.  The *)
(* switch arms the detector; a detection is handled, a session is started  *)
(* (or fails to start), the backend answers.  The arbiter and the capture  *)
(* task are FreeRTOS tasks that run whenever they can, and the backend     *)
(* delivers what a session it has accepted calls for: weak fairness on     *)
(* each of the three.                                                      *)
(***************************************************************************)
InitRearm == InitQueue

\* the wake-word switch turned on over MQTT
RearmSwitchOn ==
  /\ Backlog
  /\ PostFromOutside("RESUME_WWD")
  /\ UNCHANGED events

\* the reply's audio arrives and the player takes it
HaTtsAudioFed == HaTtsAudio /\ tts_playing'

RearmArbiter ==
  \/ HandleWakeBegin
  \/ HandleWakeEnd
  \/ HandleResumeWwd
  \/ HandleErrorResumeBegin
  \/ HandleErrorResumeEnd

RearmProducer ==
  \/ ProducerWakeFeed
  \/ ProducerRecFrame
  \/ ProducerVadSpeechEnd

RearmBackend ==
  \/ HaRunStart
  \/ HaPipelineError
  \/ HaResponseEmpty
  \/ HaResponseSpeech
  \/ HaTtsAudioFed
  \/ TtsPlaybackComplete

NextRearm ==
  \/ RearmSwitchOn
  \/ RearmArbiter
  \/ RearmProducer
  \/ RearmBackend

SpecRearm ==
  /\ InitRearm
  /\ [][NextRearm]_vars
  /\ WF_vars(RearmArbiter)
  /\ WF_vars(RearmProducer)
  /\ WF_vars(RearmBackend)

\* the detector armed and the capture in wake-word mode
DetectorArmed ==
  /\ wwd_state.running
  /\ is_capturing
  /\ capture_callback = WWD_FEED

\* C40: with the detector initialised, no music playing or paused and no
\* STOP_WWD issued, every WAKE_DETECTED that is handled is eventually
\* followed by the detector armed again with the capture in wake-word mode,
\* the session start having succeeded or failed.
C40_WakeLeadsToRearm == (apc = "wake_beep") ~> DetectorArmed

=============================================================================
